---- MODULE Spec2Model ----
(***************************************************************************)
(* A model of the "Dedicated tasks" VS Code extension:                     *)
(*   - TasksTreeDataProvider.buildHierarchyFromItems (the grouped tree),   *)
(*   - StatusBarManager.updateStatusBar / filterItemsForStatusBar,         *)
(*   - generateFolderAbbreviations,                                        *)
(*   - the best-effort readers of tasks.json, launch.json and              *)
(*     dedicated-tasks.json.                                               *)
(* JavaScript strings that the code only compares for equality are TLA+    *)
(* strings; strings whose characters the code inspects are sequences of    *)
(* one-character strings.                                                  *)
(***************************************************************************)
EXTENDS Integers, Sequences, FiniteSets, TLC

VARIABLES
    pc,                  \* which operation has run: "ready" before, "done" after
    allItems,            \* the (TaskTreeItem | LaunchConfigItem)[] handed to the operation
    hierarchy,           \* the TreeItemChildren[] returned by buildHierarchyFromItems
    filterText,          \* TasksTreeDataProvider.filterText: the characters of the filter
    contextKeys,         \* the host's context keys: [filterActive]
    treeChanges,         \* the number of times _onDidChangeTreeData has fired
    workspaceFolders,    \* vscode.workspace.workspaceFolders: [name, uri] records
    folderAbbreviations, \* the Map<uri, tag> returned by generateFolderAbbreviations
    config,              \* StatusBarManager.config.folders: Map<uri, FolderStatusBarConfig>
    statusBarItems,      \* StatusBarManager.statusBarItems: Map<itemId, StatusBarItem>
    statusBar,           \* the host's status bar: the items created and not disposed
    files,               \* Map<uri, [tasks, launch, dedicated]>: the .vscode files of a folder
    hostTasks,           \* vscode.tasks.fetchTasks(): [name, scope] records
    result,              \* the outcome of the operation that ran: [subject, threw, value]
    handlers,            \* the asynchronous handlers in flight, each at one of its awaits
    history              \* what the events and the completed handlers have left behind

uiVars == <<contextKeys, treeChanges>>
treeVars == <<allItems, hierarchy, filterText, uiVars>>
abbrVars == <<workspaceFolders, folderAbbreviations>>
sbVars == <<config, statusBarItems, statusBar>>
cfgVars == <<files, hostTasks, result>>
asyncVars == <<handlers, history>>
vars == <<pc, allItems, hierarchy, filterText, contextKeys, treeChanges, workspaceFolders, folderAbbreviations,
          config, statusBarItems, statusBar, files, hostTasks, result, handlers, history>>

(***************************************************************************)
(* Generic helpers.                                                        *)
(***************************************************************************)
Range(s) == {s[i] : i \in DOMAIN s}

SeqsUpTo(S, n) == UNION {[1..k -> S] : k \in 0..n}

IsPrefix(p, q) == Len(p) <= Len(q) /\ \A i \in 1..Len(p) : q[i] = p[i]

(* Array.prototype.sort with a comparator: the sort is stable, so it is    *)
(* the insertion of every element, in array order, behind the elements     *)
(* that do not compare greater than it.                                    *)
StableSort(s, cmp) ==
    LET Insert(sorted, x) ==
            LET k == Cardinality({i \in 1..Len(sorted) : cmp[<<sorted[i], x>>] <= 0})
            IN  SubSeq(sorted, 1, k) \o <<x>> \o SubSeq(sorted, k + 1, Len(sorted))
        RECURSIVE From(_, _)
        From(i, acc) == IF i > Len(s) THEN acc ELSE From(i + 1, Insert(acc, s[i]))
    IN  From(1, <<>>)

(***************************************************************************)
(* DedicatedTasksConfig.groups: (string | string[])[]                      *)
(***************************************************************************)
(* An entry is a string, an array of strings, or (in a malformed block)     *)
(* another JSON value, here a number; str then holds its text.             *)
Str(s) == [isString |-> TRUE, isArray |-> FALSE, str |-> s, arr |-> <<>>]
Arr(a) == [isString |-> FALSE, isArray |-> TRUE, str |-> "", arr |-> a]
Num(n) == [isString |-> FALSE, isArray |-> FALSE, str |-> n, arr |-> <<>>]

(* const pathArray = typeof groupPath === 'string' ? [groupPath] : groupPath *)
NormalizePath(groupPath) == IF groupPath.isString THEN <<groupPath.str>> ELSE groupPath.arr

(* `for (const segment of pathArray)` throws a TypeError when pathArray is *)
(* not iterable: an entry that is neither a string nor an array.           *)
PathIterable(groupPath) == groupPath.isString \/ groupPath.isArray

(* `for (const groupPath of item.config.groups)` throws a TypeError when   *)
(* the block has no groups.                                                *)
GroupsIterable(item) == item.config.groupsDefined

(* a.config.order ?? 0 *)
OrderOf(item) == IF item.config.hasOrder THEN item.config.order ELSE 0

(***************************************************************************)
(* String.prototype.localeCompare on the group names of the model: the     *)
(* collation puts "a" < "b" < "B" (letters first, lower case before upper  *)
(* case), which is not the code-unit order "B" < "a" < "b".                *)
(***************************************************************************)
CollationOrder == <<"a", "a/b", "b", "B">>

CollationRank(s) == CHOOSE i \in 1..Len(CollationOrder) : CollationOrder[i] = s

LocaleCompare(a, b) ==
    IF CollationRank(a) < CollationRank(b) THEN -1
    ELSE IF CollationRank(a) > CollationRank(b) THEN 1 ELSE 0

(***************************************************************************)
(* A JavaScript Map<string, V>: entries in insertion order.                *)
(***************************************************************************)
MapHas(m, key) == \E i \in 1..Len(m) : m[i].key = key

MapGet(m, key) == m[CHOOSE i \in 1..Len(m) : m[i].key = key].value

MapSet(m, key, value) ==
    IF MapHas(m, key)
    THEN [i \in 1..Len(m) |-> IF m[i].key = key THEN [key |-> key, value |-> value] ELSE m[i]]
    ELSE Append(m, [key |-> key, value |-> value])

(***************************************************************************)
(* buildHierarchyFromItems, first half: the HierarchyNode tree.  The nodes *)
(* live in a heap (a sequence); node 1 is the root; a node's children map  *)
(* a segment to the index of the child node.                               *)
(***************************************************************************)
NewNode(path) == [children |-> <<>>, items |-> <<>>, path |-> path]

RootNode == 1

(* currentNode.children.has(segment) *)
ChildHas(node, segment) == MapHas(node.children, segment)

NodePathMutant(currentPath, segment) == <<segment>>

(* currentPath = [...currentPath, segment] *)
NodePath(currentPath, segment) == Append(currentPath, segment)

(* The body of `for (const segment of pathArray)` and the push behind it.  *)
RECURSIVE InsertAtPath(_, _, _, _, _)
InsertAtPath(heap, currentNode, currentPath, rest, item) ==
    IF rest = <<>>
    THEN [heap EXCEPT ![currentNode].items = Append(@, item)]
    ELSE LET segment == Head(rest)
             newPath == NodePath(currentPath, segment)
             heap1 == IF ~ChildHas(heap[currentNode], segment)
                      THEN Append([heap EXCEPT ![currentNode].children =
                                       MapSet(@, segment, Len(heap) + 1)],
                                  NewNode(newPath))
                      ELSE heap
         IN  InsertAtPath(heap1, MapGet(heap1[currentNode].children, segment),
                          newPath, Tail(rest), item)

(* for (const groupPath of item.config.groups) *)
RECURSIVE InsertGroups(_, _, _, _)
InsertGroups(heap, groups, g, item) ==
    IF g > Len(groups) THEN heap
    ELSE InsertGroups(InsertAtPath(heap, RootNode, <<>>, NormalizePath(groups[g]), item),
                      groups, g + 1, item)

(* for (const item of allItems): an item is its index in the list, as the  *)
(* code handles the item objects by reference.                             *)
RECURSIVE InsertItems(_, _, _)
InsertItems(heap, items, i) ==
    IF i > Len(items) THEN heap
    ELSE InsertItems(InsertGroups(heap, items[i].config.groups, 1, i), items, i + 1)

(***************************************************************************)
(* buildHierarchyFromItems, second half: convertNode.                      *)
(***************************************************************************)
SortedGroupsMutant(children) == children

(* Array.from(node.children.entries()).sort((a, b) => a[0].localeCompare(b[0])) *)
SortedGroups(children) ==
    LET cmp == [p \in Range(children) \X Range(children) |-> LocaleCompare(p[1].key, p[2].key)]
    IN  StableSort(children, cmp)

SortedItemsMutant(nodeItems, items) == nodeItems

(* [...node.items].sort((a, b) => (a.config.order ?? 0) - (b.config.order ?? 0)) *)
SortedItems(nodeItems, items) ==
    LET cmp == [p \in Range(nodeItems) \X Range(nodeItems) |->
                    OrderOf(items[p[1]]) - OrderOf(items[p[2]])]
    IN  StableSort(nodeItems, cmp)

(* The value of an expression computed once: TheOne({ F(x) : x \in {e} })   *)
(* is F(e) with e evaluated a single time.                                 *)
TheOne(S) == CHOOSE x \in S : TRUE

(* The result of an operation that can throw. *)
Ok(v) == [threw |-> FALSE, value |-> v]
Thrown(v) == [threw |-> TRUE, value |-> v]

(***************************************************************************)
(* The characters of the strings that the code joins or looks into: the    *)
(* names of the items, their labels and details, the names of the groups.  *)
(***************************************************************************)
Spelling(s) ==
    CASE s = "" -> <<>>
      [] s = "a" -> <<"a">>
      [] s = "b" -> <<"b">>
      [] s = "B" -> <<"B">>
      [] s = "a/b" -> <<"a", "/", "b">>
      [] s = "run" -> <<"r", "u", "n">>
      [] s = "dbg" -> <<"d", "b", "g">>
      [] s = "Ab" -> <<"A", "b">>
      [] s = "dE" -> <<"d", "E">>
      [] s = "Cd" -> <<"C", "d">>
      [] s = "ce" -> <<"c", "e">>

(* Array.prototype.join(separator) on strings *)
RECURSIVE Join(_, _)
Join(strs, separator) ==
    IF strs = <<>> THEN <<>>
    ELSE IF Len(strs) = 1 THEN Spelling(strs[1])
    ELSE Spelling(strs[1]) \o <<separator>> \o Join(Tail(strs), separator)

(* A reference to a tree item object: a group item is the one object made  *)
(* for its node, a folder item the one made for its folder.                *)
NoParent == [kind |-> "undefined", folder |-> 0, path |-> <<>>]
GroupRef(folderUri, path) == [kind |-> "group", folder |-> folderUri, path |-> path]
FolderRef(folderUri) == [kind |-> "folder", folder |-> folderUri, path |-> <<>>]

(* workspaceFolder?.uri.toString() || 'global': no folder is uri 0 *)
NoFolder == 0

(* countItems(children) *)
RECURSIVE countItems(_)
countItems(children) ==
    IF children = <<>> THEN 0
    ELSE (IF Head(children).type = "group" THEN countItems(Head(children).children) ELSE 1)
         + countItems(Tail(children))

GroupTreeItemMutant(label, children, path, folderUri, isExpanded) ==
    [type |-> "group", label |-> label, path |-> path, item |-> 0, children |-> children,
     id |-> <<"group", ":", folderUri, ":">> \o Join(path, "/"),
     expanded |-> FALSE,
     hasDescription |-> countItems(children) > 0,
     description |-> countItems(children),
     parent |-> NoParent]

(* new GroupTreeItem(label, children, path, folder, abbreviation,          *)
(* isExpanded): the id `group:${folderUri}:${path.join('/')}`, the         *)
(* description set from the children given to the constructor, the        *)
(* collapsible state Expanded or Collapsed.                                *)
GroupTreeItem(label, children, path, folderUri, isExpanded) ==
    [type |-> "group", label |-> label, path |-> path, item |-> 0, children |-> children,
     id |-> <<"group", ":", folderUri, ":">> \o Join(path, "/"),
     expanded |-> isExpanded,
     hasDescription |-> countItems(children) > 0,
     description |-> countItems(children),
     parent |-> NoParent]

(* The TaskTreeItem / LaunchConfigItem of an item as a node of the tree:   *)
(* the id `task:${folderUri}:${name}` or `launch:${folderUri}:${name}`.    *)
LeafTreeItem(items, i) ==
    [type |-> items[i].itemType, label |-> items[i].name, path |-> <<>>, item |-> i,
     children |-> <<>>,
     id |-> <<items[i].itemType, ":", items[i].folder, ":">> \o Spelling(items[i].name),
     expanded |-> FALSE, hasDescription |-> FALSE, description |-> 0,
     parent |-> NoParent]

(* convertNode(node, parentItem): each group item is created with no       *)
(* children, gets its parent, then its children; the leaf items get the    *)
(* parent.                                                                 *)
RECURSIVE ConvertNode(_, _, _, _, _, _)
ConvertNode(heap, node, items, parentItem, folderUri, isExpanded) ==
    LET sortedGroups == SortedGroups(heap[node].children)
        groupItems ==
            [k \in 1..Len(sortedGroups) |->
                [GroupTreeItem(sortedGroups[k].key, <<>>, heap[sortedGroups[k].value].path,
                               folderUri, isExpanded)
                    EXCEPT !.parent = parentItem,
                           !.children = ConvertNode(heap, sortedGroups[k].value, items,
                                                    GroupRef(folderUri,
                                                             heap[sortedGroups[k].value].path),
                                                    folderUri, isExpanded)]]
        sortedItems == SortedItems(heap[node].items, items)
    IN  groupItems \o [k \in 1..Len(sortedItems) |->
                          [LeafTreeItem(items, sortedItems[k]) EXCEPT !.parent = parentItem]]

(* The assignments `item.parent = ...` to the leaf items of a tree, in the *)
(* order convertNode makes them.                                           *)
RECURSIVE ParentAssignments(_)
ParentAssignments(children) ==
    IF children = <<>> THEN <<>>
    ELSE (IF Head(children).type = "group" THEN ParentAssignments(Head(children).children)
          ELSE <<[item |-> Head(children).item, parent |-> Head(children).parent]>>)
         \o ParentAssignments(Tail(children))

(* An item listed under several nodes is one object: every occurrence      *)
(* shows the parent assigned last.                                         *)
RECURSIVE WithSharedParents(_, _)
WithSharedParents(children, assignments) ==
    [k \in DOMAIN children |->
        IF children[k].type = "group"
        THEN [children[k] EXCEPT !.children = WithSharedParents(@, assignments)]
        ELSE LET last == CHOOSE a \in DOMAIN assignments :
                            /\ assignments[a].item = children[k].item
                            /\ \A b \in DOMAIN assignments :
                                   assignments[b].item = children[k].item => b <= a
             IN  [children[k] EXCEPT !.parent = assignments[last].parent]]

buildHierarchyFromItems(items, folderUri, filter) ==
    TheOne({ WithSharedParents(converted, ParentAssignments(converted)) :
               converted \in { ConvertNode(InsertItems(<<NewNode(<<>>)>>, items, 1), RootNode,
                                           items, NoParent, folderUri, filter # <<>>) } })

(* The insertion loops are not inside a try: the first item whose groups   *)
(* or whose entry cannot be iterated ends buildHierarchyFromItems with a   *)
(* TypeError.                                                              *)
buildHierarchyThrows(items) ==
    \E i \in DOMAIN items :
        \/ ~GroupsIterable(items[i])
        \/ \E g \in DOMAIN items[i].config.groups : ~PathIterable(items[i].config.groups[g])

(***************************************************************************)
(* generateFolderAbbreviations.  Folder names and tags are sequences of    *)
(* one-character strings.                                                  *)
(***************************************************************************)
LowerCase == <<"a", "b", "c", "d", "e", "i", "x">>
UpperCase == <<"A", "B", "C", "D", "E", "I", "X">>

(* String.prototype.toUpperCase, character by character *)
ToUpperChar(c) ==
    IF \E k \in DOMAIN LowerCase : LowerCase[k] = c
    THEN UpperCase[CHOOSE k \in DOMAIN LowerCase : LowerCase[k] = c]
    ELSE c

ToUpperCase(str) == [k \in DOMAIN str |-> ToUpperChar(str[k])]

(* the character classes [\s\-_.] and [aeiouAEIOU\s\-_.] *)
IsSeparator(c) == c \in {" ", "-", "_", "."}
IsVowelOrSeparator(c) == c \in {"a", "e", "i", "o", "u", "A", "E", "I", "O", "U"} \/ IsSeparator(c)

(* str.substring(from, to) with 0-based bounds, clamped to the string *)
Substring(str, from, to) ==
    LET lo == IF from > Len(str) THEN Len(str) ELSE from
        hi == IF to > Len(str) THEN Len(str) ELSE to
    IN  SubSeq(str, lo + 1, hi)

RECURSIVE PadEnd(_, _, _)
PadEnd(str, n, c) == IF Len(str) >= n THEN str ELSE PadEnd(Append(str, c), n, c)

RECURSIVE PadStart(_, _, _)
PadStart(str, n, c) == IF Len(str) >= n THEN str ELSE PadStart(<<c>> \o str, n, c)

DigitChars == <<"0", "1", "2", "3", "4", "5", "6", "7", "8", "9">>

(* Number.prototype.toString of a non-negative integer *)
RECURSIVE NumberToString(_)
NumberToString(n) ==
    IF n < 10 THEN <<DigitChars[n + 1]>>
    ELSE Append(NumberToString(n \div 10), DigitChars[(n % 10) + 1])

(* str[i] with a 0-based index; the string "undefined" stands for the      *)
(* value undefined, which is what `undefined + string` concatenates.       *)
UndefinedString == <<"u", "n", "d", "e", "f", "i", "n", "e", "d">>

CharAt(str, i) == IF i < Len(str) THEN <<str[i + 1]>> ELSE UndefinedString

(* const getConsonants = (str) => str.replaceAll(/[aeiouAEIOU\s\-_.]/g, '') *)
getConsonants(str) == SelectSeq(str, LAMBDA c : ~IsVowelOrSeparator(c))

(* name.replaceAll(/[\s\-_.]/g, '').toUpperCase() *)
CleanName(name) == ToUpperCase(SelectSeq(name, LAMBDA c : ~IsSeparator(c)))

(* Strategy 1: first 3 characters *)
Strategy1(cleanName) == PadEnd(Substring(cleanName, 0, 3), 3, "X")

(* Strategy 2: first letter + next 2 consonants *)
Strategy2(cleanName) ==
    PadEnd(CharAt(cleanName, 0)
               \o Substring(getConsonants(Substring(cleanName, 1, Len(cleanName))), 0, 2),
           3, "X")

(* Strategy 3: first + middle + last character (cleanName.length >= 3) *)
Strategy3(cleanName) ==
    CharAt(cleanName, 0) \o CharAt(cleanName, Len(cleanName) \div 2)
        \o CharAt(cleanName, Len(cleanName) - 1)

(* Strategy 4: base + i.toString() *)
Strategy4(cleanName, i) == PadEnd(Substring(cleanName, 0, 2), 2, "X") \o NumberToString(i)

(* folders.indexOf(folders.find(f => f.name === name)!) *)
IndexOfFirstNamed(folders, name) ==
    (CHOOSE k \in DOMAIN folders :
        /\ folders[k].name = name
        /\ \A j \in 1..(k - 1) : folders[j].name # name) - 1

(* Fallback: use folder index *)
Fallback(folders, name) ==
    <<"F">> \o PadStart(NumberToString(IndexOfFirstNamed(folders, name) + 1), 2, "0")

generateAbbreviation(folders, name, usedAbbreviations) ==
    LET cleanName == CleanName(name)
        free4 == {i \in 1..9 : Strategy4(cleanName, i) \notin usedAbbreviations}
    IN  IF Strategy1(cleanName) \notin usedAbbreviations THEN Strategy1(cleanName)
        ELSE IF Strategy2(cleanName) \notin usedAbbreviations THEN Strategy2(cleanName)
        ELSE IF Len(cleanName) >= 3 /\ Strategy3(cleanName) \notin usedAbbreviations
             THEN Strategy3(cleanName)
        ELSE IF free4 # {}
             THEN Strategy4(cleanName, CHOOSE i \in free4 : \A j \in free4 : i <= j)
        ELSE Fallback(folders, name)

(* for (const folder of folders) { abbreviations.set(uri, abbrev); used.add(abbrev) } *)
RECURSIVE AssignAbbreviations(_, _, _, _)
AssignAbbreviations(folders, k, abbreviations, usedAbbreviations) ==
    IF k > Len(folders) THEN abbreviations
    ELSE LET abbrev == generateAbbreviation(folders, folders[k].name, usedAbbreviations)
         IN  AssignAbbreviations(folders, k + 1, MapSet(abbreviations, folders[k].uri, abbrev),
                                 usedAbbreviations \cup {abbrev})

generateFolderAbbreviations(folders) == AssignAbbreviations(folders, 1, <<>>, {})

(***************************************************************************)
(* TaskTreeItem / LaunchConfigItem: the fields the operations read.        *)
(***************************************************************************)
ItemOf(itemType, name, folder, folderAbbreviation, cfg) ==
    [itemType |-> itemType, name |-> name, folder |-> folder,
     folderAbbreviation |-> folderAbbreviation, config |-> cfg]

(* A well-formed DedicatedTasksConfig.                                     *)
Config(groups, ord) ==
    [groupsDefined |-> TRUE, groups |-> groups, hasOrder |-> ord.hasOrder, order |-> ord.order,
     hide |-> FALSE, label |-> "", detail |-> ""]

Item(itemType, name, folder, folderAbbreviation, groups, ord) ==
    ItemOf(itemType, name, folder, folderAbbreviation, Config(groups, ord))

(***************************************************************************)
(* String.prototype.localeCompare on tags: the letters compare first       *)
(* without their case, digits before letters; strings equal up to case     *)
(* compare by case, lower before upper.                                    *)
(***************************************************************************)
PrimaryOrder == <<"0", "1", "2", "3", "4", "5", "6", "7", "8", "9",
                  "A", "B", "C", "D", "E", "F", "I", "N", "U", "X">>

PrimaryRank(c) == CHOOSE k \in DOMAIN PrimaryOrder : PrimaryOrder[k] = ToUpperChar(c)

IsUpperChar(c) == \E k \in DOMAIN UpperCase : UpperCase[k] = c

CompareBy(a, b, rank) ==
    LET RECURSIVE From(_)
        From(k) ==
            IF k > Len(a) /\ k > Len(b) THEN 0
            ELSE IF k > Len(a) THEN -1
            ELSE IF k > Len(b) THEN 1
            ELSE IF rank[a[k]] < rank[b[k]] THEN -1
            ELSE IF rank[a[k]] > rank[b[k]] THEN 1
            ELSE From(k + 1)
    IN  From(1)

LocaleCompareChars(a, b) ==
    LET chars == Range(a) \cup Range(b)
        primaryRank == [c \in chars |-> PrimaryRank(c)]
        caseRank == [c \in chars |-> IF IsUpperChar(c) THEN 1 ELSE 0]
        primary == CompareBy(a, b, primaryRank)
    IN  IF primary # 0 THEN primary ELSE CompareBy(a, b, caseRank)

(***************************************************************************)
(* StatusBarManager                                                        *)
(***************************************************************************)
EmptyFolderConfig == [itemNames |-> <<>>, groups |-> <<>>]

(* (vscode.workspace.workspaceFolders?.length ?? 0) > 1 *)
isMultiFolderWorkspace(folders) == Len(folders) > 1

(* taskPath.length >= parentPath.length && parentPath.every((s, i) => taskPath[i] === s) *)
isChildOfGroup(taskPath, parentPath) ==
    /\ ~(Len(taskPath) < Len(parentPath))
    /\ \A index \in 1..Len(parentPath) : taskPath[index] = parentPath[index]

(* const itemGroupPath = Array.isArray(itemGroup) ? itemGroup : [itemGroup] *)
NormalizeGroup(itemGroup) == IF itemGroup.isArray THEN itemGroup.arr ELSE <<itemGroup.str>>

FolderConfigOfMutant(cfg, folderUri) ==
    IF cfg = <<>> THEN EmptyFolderConfig ELSE cfg[1].value

(* this.config.folders.get(folderUri) || { itemNames: [], groups: [] } *)
FolderConfigOf(cfg, folderUri) ==
    IF MapHas(cfg, folderUri) THEN MapGet(cfg, folderUri) ELSE EmptyFolderConfig

(* const uniqueKey = isMultiFolder ? `${folderUri}:${itemName}` : itemName *)
UniqueKey(item, isMultiFolder) ==
    IF isMultiFolder THEN [folder |-> item.folder, name |-> item.name]
    ELSE [folder |-> 0, name |-> item.name]

(* folderConfig.itemNames.includes(itemName) *)
NameSelected(folderConfig, itemName) ==
    \E k \in DOMAIN folderConfig.itemNames : folderConfig.itemNames[k] = itemName

(* The loop over folderConfig.groups for one of the item's groups: the     *)
(* item is pushed at the first configured group it is a child of.          *)
RECURSIVE ConfigGroupLoop(_, _, _, _, _, _)
ConfigGroupLoop(itemGroupPath, configGroups, c, i, key, acc) ==
    IF c > Len(configGroups) THEN acc
    ELSE IF isChildOfGroup(itemGroupPath, configGroups[c])
         THEN [acc EXCEPT !.filtered = Append(acc.filtered, i),
                          !.seenItems = acc.seenItems \cup {key}]
         ELSE ConfigGroupLoop(itemGroupPath, configGroups, c + 1, i, key, acc)

(* if (seenItems.has(uniqueKey)) { break; } *)
SeenBreak(seenItems, key) == key \in seenItems

(* The loop over item.config.groups, left once the item has been pushed.   *)
RECURSIVE ItemGroupLoop(_, _, _, _, _, _)
ItemGroupLoop(itemGroups, g, configGroups, i, key, acc) ==
    IF g > Len(itemGroups) THEN acc
    ELSE LET acc1 == ConfigGroupLoop(NormalizeGroup(itemGroups[g]), configGroups, 1, i, key, acc)
         IN  IF SeenBreak(acc1.seenItems, key) THEN acc1
             ELSE ItemGroupLoop(itemGroups, g + 1, configGroups, i, key, acc1)

(* if (seenItems.has(uniqueKey)) { continue; } *)
SeenSkip(seenItems, key) == key \in seenItems

(* for (const item of items): items are indices into the list.  The loop  *)
(* is not inside a try: `for (const itemGroup of item.config.groups)` ends *)
(* it with a TypeError at an item that has no groups.                      *)
RECURSIVE FilterLoop(_, _, _, _, _)
FilterLoop(items, i, cfg, isMultiFolder, acc) ==
    IF i > Len(items) \/ acc.threw THEN acc
    ELSE LET item == items[i]
             key == UniqueKey(item, isMultiFolder)
             folderConfig == FolderConfigOf(cfg, item.folder)
             acc1 == IF SeenSkip(acc.seenItems, key) THEN acc
                     ELSE IF NameSelected(folderConfig, item.name)
                          THEN [acc EXCEPT !.filtered = Append(acc.filtered, i),
                                           !.seenItems = acc.seenItems \cup {key}]
                          ELSE IF ~GroupsIterable(item) THEN [acc EXCEPT !.threw = TRUE]
                          ELSE ItemGroupLoop(item.config.groups, 1, folderConfig.groups,
                                             i, key, acc)
         IN  FilterLoop(items, i + 1, cfg, isMultiFolder, acc1)

SortForStatusBarMutant(filtered, items, isMultiFolder) == filtered

(* filtered.sort(...): folder abbreviation first (multi-folder), then order *)
SortForStatusBar(filtered, items, isMultiFolder) ==
    LET FolderCompare(a, b) == LocaleCompareChars(items[a].folderAbbreviation,
                                                  items[b].folderAbbreviation)
        cmp == [p \in Range(filtered) \X Range(filtered) |->
                    IF isMultiFolder /\ FolderCompare(p[1], p[2]) # 0
                    THEN FolderCompare(p[1], p[2])
                    ELSE OrderOf(items[p[1]]) - OrderOf(items[p[2]])]
    IN  StableSort(filtered, cmp)

filterItemsForStatusBar(items, cfg, folders) ==
    SortForStatusBar(FilterLoop(items, 1, cfg, isMultiFolderWorkspace(folders),
                                [filtered |-> <<>>, seenItems |-> {}, threw |-> FALSE]).filtered,
                     items, isMultiFolderWorkspace(folders))

filterItemsForStatusBarThrows(items, cfg, folders) ==
    FilterLoop(items, 1, cfg, isMultiFolderWorkspace(folders),
               [filtered |-> <<>>, seenItems |-> {}, threw |-> FALSE]).threw

(* const itemId = isMultiFolder ? `${item.folderAbbreviation}:${itemName}` : itemName *)
ItemId(item, isMultiFolder) ==
    IF isMultiFolder THEN [prefix |-> item.folderAbbreviation, name |-> item.name]
    ELSE [prefix |-> <<>>, name |-> item.name]

(* The host's status bar once every item the map holds is disposed.        *)
DisposeAll(bar, sbItems) ==
    SelectSeq(bar, LAMBDA e : \A k \in DOMAIN sbItems : sbItems[k].value # e.handle)

(* A handle the host has not given out to a live item.                     *)
FreshHandle(bar) == CHOOSE h \in 1..(Len(bar) + 1) : \A k \in DOMAIN bar : bar[k].handle # h

(* The creation loop of updateStatusBar: createStatusBarItem(Left,         *)
(* priority--), statusBarItems.set(itemId, statusBarItem), show().         *)
RECURSIVE CreateLoop(_, _, _, _, _, _)
CreateLoop(itemsToShow, k, items, isMultiFolder, priority, st) ==
    IF k > Len(itemsToShow) THEN st
    ELSE LET handle == FreshHandle(st.statusBar)
             entry == [handle |-> handle, priority |-> priority, item |-> itemsToShow[k]]
         IN  CreateLoop(itemsToShow, k + 1, items, isMultiFolder, priority - 1,
                        [st EXCEPT !.statusBar = Append(st.statusBar, entry),
                                   !.statusBarItems = MapSet(st.statusBarItems,
                                                   ItemId(items[itemsToShow[k]], isMultiFolder),
                                                   handle)])

InitialPriority == 1000

(* clearStatusBar(): item.dispose() for the values of the map, then        *)
(* statusBarItems.clear().                                                 *)
clearStatusBar(bar, sbItems) ==
    [statusBar |-> DisposeAll(bar, sbItems), statusBarItems |-> <<>>, threw |-> FALSE]

(* dispose(): this.clearStatusBar() *)
dispose(bar, sbItems) == clearStatusBar(bar, sbItems)

(* clearStatusBar() runs first; an error of filterItemsForStatusBar then  *)
(* leaves the bar cleared and rejects the promise.                         *)
updateStatusBar(items, cfg, folders, bar, sbItems) ==
    LET cleared == clearStatusBar(bar, sbItems)
    IN  IF filterItemsForStatusBarThrows(items, cfg, folders)
        THEN [cleared EXCEPT !.threw = TRUE]
        ELSE CreateLoop(filterItemsForStatusBar(items, cfg, folders), 1, items,
                        isMultiFolderWorkspace(folders), InitialPriority, cleared)


(***************************************************************************)
(* The filter of the tree: setFilter and matchesFilter.  The filter looks  *)
(* into the names, labels, details and group names by their Spelling.      *)
(***************************************************************************)
(* String.prototype.toLowerCase, character by character *)
ToLowerChar(c) ==
    IF \E k \in DOMAIN UpperCase : UpperCase[k] = c
    THEN LowerCase[CHOOSE k \in DOMAIN UpperCase : UpperCase[k] = c]
    ELSE c

ToLowerCase(str) == [k \in DOMAIN str |-> ToLowerChar(str[k])]

(* String.prototype.includes *)
Includes(text, search) ==
    \E start \in 0..(Len(text) - Len(search)) :
        SubSeq(text, start + 1, start + Len(search)) = search

setFilterMutant(text) == <<>>

(* setFilter(text): this.filterText = text.toLowerCase() *)
setFilter(text) == ToLowerCase(text)

(* groupPath.some(g => g.toLowerCase().includes(this.filterText)) over the *)
(* groups in their order; an entry that is neither a string nor an array   *)
(* has no toLowerCase.                                                     *)
RECURSIVE GroupsMatch(_, _, _)
GroupsMatch(groups, g, filter) ==
    IF g > Len(groups) THEN Ok(FALSE)
    ELSE IF ~PathIterable(groups[g]) THEN Thrown(FALSE)
    ELSE IF \E s \in DOMAIN NormalizeGroup(groups[g]) :
                Includes(ToLowerCase(Spelling(NormalizeGroup(groups[g])[s])), filter)
         THEN Ok(TRUE)
         ELSE GroupsMatch(groups, g + 1, filter)

matchesFilter(item, filter) ==
    IF filter = <<>> THEN Ok(TRUE)
    ELSE IF Includes(ToLowerCase(Spelling(item.name)), filter) THEN Ok(TRUE)
    ELSE IF Includes(ToLowerCase(Spelling(item.config.label)), filter) THEN Ok(TRUE)
    ELSE IF Includes(ToLowerCase(Spelling(item.config.detail)), filter) THEN Ok(TRUE)
    ELSE IF ~GroupsIterable(item) THEN Thrown(FALSE)
    ELSE GroupsMatch(item.config.groups, 1, filter)

(* allItems = allItems.filter(item => this.matchesFilter(item)): the       *)
(* positions of the items kept.                                            *)
RECURSIVE FilterByText(_, _, _, _)
FilterByText(items, i, filter, kept) ==
    IF i > Len(items) THEN Ok(kept)
    ELSE LET matches == matchesFilter(items[i], filter)
         IN  IF matches.threw THEN Thrown(<<>>)
             ELSE FilterByText(items, i + 1, filter,
                               IF matches.value THEN Append(kept, i) ELSE kept)

(* buildHierarchyForFolder on the items read:                              *)
(* if (this.filterText) allItems = allItems.filter(...), then build.       *)
buildFilteredHierarchy(items, folderUri, filter) ==
    TheOne({ TheOne({ IF kept.threw \/ buildHierarchyThrows(keptItems)
                      THEN [threw |-> TRUE, kept |-> <<>>, children |-> <<>>]
                      ELSE [threw |-> FALSE, kept |-> kept.value,
                            children |-> buildHierarchyFromItems(keptItems, folderUri, filter)] :
                        keptItems \in { [k \in DOMAIN kept.value |-> items[kept.value[k]]] } }) :
               kept \in { IF filter # <<>> THEN FilterByText(items, 1, filter, <<>>)
                          ELSE Ok([k \in DOMAIN items |-> k]) } })
(***************************************************************************)
(* Reading configuration.  A file of a folder's .vscode directory is       *)
(* missing, unreadable, or a text; a text either is JSON once its comments *)
(* are stripped (parses) or is not, and may hold comments.  An operation   *)
(* that can throw returns [threw, value]; a try/catch is an operator on    *)
(* such a result.                                                          *)
(***************************************************************************)

MissingFile == [kind |-> "missing", parses |-> FALSE, comments |-> FALSE, value |-> <<>>]
UnreadableFile == [kind |-> "unreadable", parses |-> FALSE, comments |-> FALSE, value |-> <<>>]
UnparsableText == [kind |-> "text", parses |-> FALSE, comments |-> FALSE, value |-> <<>>]
JsonText(v) == [kind |-> "text", parses |-> TRUE, comments |-> FALSE, value |-> v]
JsonTextWithComments(v) == [kind |-> "text", parses |-> TRUE, comments |-> TRUE, value |-> v]

(* The values of tasks.json and launch.json: null, or an object that may   *)
(* hold the array (tasks / configurations) of entries; an entry is null or *)
(* an object with a name (label / name) and maybe a dedicatedTasks block.  *)
Nullish == [nullish |-> TRUE, hasArray |-> FALSE, entries |-> <<>>]
ObjectWithoutArray == [nullish |-> FALSE, hasArray |-> FALSE, entries |-> <<>>]
ObjectWith(entries) == [nullish |-> FALSE, hasArray |-> TRUE, entries |-> entries]

NoOrder == [hasOrder |-> FALSE, order |-> 0]
NoBlock == [present |-> FALSE, config |-> Config(<<>>, NoOrder)]
Block(cfg) == [present |-> TRUE, config |-> cfg]
NullEntry == [nullish |-> TRUE, name |-> "", block |-> NoBlock]
Entry(name, block) == [nullish |-> FALSE, name |-> name, block |-> block]

(* The values of dedicated-tasks.json.                                     *)
NullSelection ==
    [nullish |-> TRUE, hasStatusBar |-> FALSE, statusBar |-> EmptyFolderConfig,
     hasAbbreviation |-> FALSE, abbreviation |-> ""]
ObjectWithoutStatusBar ==
    [nullish |-> FALSE, hasStatusBar |-> FALSE, statusBar |-> EmptyFolderConfig,
     hasAbbreviation |-> FALSE, abbreviation |-> ""]
ObjectWithStatusBar(sel) ==
    [nullish |-> FALSE, hasStatusBar |-> TRUE, statusBar |-> sel,
     hasAbbreviation |-> FALSE, abbreviation |-> ""]
(* The same object with a custom "abbreviation" field.                     *)
WithAbbreviation(v, abbreviation) ==
    [v EXCEPT !.hasAbbreviation = TRUE, !.abbreviation = abbreviation]

(* vscode.workspace.openTextDocument(uri) rejects unless the file can be   *)
(* opened.                                                                 *)
openTextDocument(file) == IF file.kind = "text" THEN Ok(file) ELSE Thrown(file)

(* vscode.workspace.fs.readFile(uri) rejects unless the file can be read.  *)
readFile(file) == IF file.kind = "text" THEN Ok(file) ELSE Thrown(file)

(* JSON.parse(text) throws on a text that is not JSON; comments are not    *)
(* JSON.                                                                   *)
JSONParse(file, nullValue) ==
    IF file.parses /\ ~file.comments THEN Ok(file.value) ELSE Thrown(nullValue)

(* parseJsonWithComments: strip the comments, JSON.parse, undefined when   *)
(* that throws.                                                            *)
parseJsonWithComments(file) ==
    LET parsed == JSONParse([file EXCEPT !.comments = FALSE], Nullish)
    IN  IF parsed.threw THEN Nullish ELSE parsed.value

(* task.scope && typeof task.scope !== 'number' ? task.scope               *)
(*                                   : workspaceFolders?.[0]               *)
(* A task's scope is a folder uri, or 0 for a global or workspace scope;   *)
(* the result is a folder uri, 0 for undefined.                            *)
getTaskWorkspaceFolder(task, folders) ==
    IF task.scope # 0 THEN task.scope
    ELSE IF Len(folders) > 0 THEN folders[1].uri ELSE 0

(* tasksConfig.tasks.find((t: any) => t.label === task.name): the index of *)
(* the first match, 0 for none; reading t.label of a null entry throws.    *)
RECURSIVE FindByLabel(_, _, _)
FindByLabel(entries, k, name) ==
    IF k > Len(entries) THEN Ok(0)
    ELSE IF entries[k].nullish THEN Thrown(0)
    ELSE IF entries[k].name = name THEN Ok(k)
    ELSE FindByLabel(entries, k + 1, name)

(* The body of the try of getDedicatedTaskConfig.                          *)
ReadTaskConfig(task, file) ==
    IF openTextDocument(file).threw THEN Thrown(NoBlock)
    ELSE LET tasksConfig == parseJsonWithComments(file)
         IN  IF tasksConfig.nullish \/ ~tasksConfig.hasArray THEN Ok(NoBlock)
             ELSE LET taskDef == FindByLabel(tasksConfig.entries, 1, task.name)
                  IN  IF taskDef.threw THEN Thrown(NoBlock)
                      ELSE IF taskDef.value = 0 THEN Ok(NoBlock)
                      ELSE Ok(tasksConfig.entries[taskDef.value].block)

CatchTasksJsonMutant(r) == r

(* catch { return undefined; } *)
CatchTasksJson(r) == IF r.threw THEN Ok(NoBlock) ELSE r

(* fs is the Map of a folder uri to the three files of the folder.         *)
getDedicatedTaskConfig(task, folders, fs) ==
    LET workspaceFolder == getTaskWorkspaceFolder(task, folders)
    IN  IF workspaceFolder = 0 THEN Ok(NoBlock)
        ELSE CatchTasksJson(ReadTaskConfig(task, MapGet(fs, workspaceFolder).tasks))

(* this.folderAbbreviations.get(uri) || folder.name.substring(0, 3).toUpperCase() *)
getFolderAbbreviation(abbreviations, folder) ==
    IF MapHas(abbreviations, folder.uri) /\ MapGet(abbreviations, folder.uri) # <<>>
    THEN MapGet(abbreviations, folder.uri)
    ELSE ToUpperCase(Substring(folder.name, 0, 3))

ShownMutant(block) == block.present

(* if (config && !config.hide), and for a launch configuration             *)
(* if (config.dedicatedTasks && !config.dedicatedTasks.hide)               *)
Shown(block) == block.present /\ ~block.config.hide

(* The loop of getDedicatedTasksForFolder over the host's tasks.           *)
RECURSIVE TasksForFolderLoop(_, _, _, _, _, _, _)
TasksForFolderLoop(folder, tasks, k, folders, fs, abbreviations, acc) ==
    IF k > Len(tasks) THEN Ok(acc)
    ELSE IF getTaskWorkspaceFolder(tasks[k], folders) # folder.uri
         THEN TasksForFolderLoop(folder, tasks, k + 1, folders, fs, abbreviations, acc)
    ELSE LET r == getDedicatedTaskConfig(tasks[k], folders, fs)
         IN  IF r.threw THEN Thrown(acc)
             ELSE IF Shown(r.value)
                  THEN TasksForFolderLoop(folder, tasks, k + 1, folders, fs, abbreviations,
                           Append(acc, ItemOf("task", tasks[k].name, folder.uri,
                                              getFolderAbbreviation(abbreviations, folder),
                                              r.value.config)))
                  ELSE TasksForFolderLoop(folder, tasks, k + 1, folders, fs, abbreviations, acc)

getDedicatedTasksForFolder(folder, tasks, folders, fs, abbreviations) ==
    TasksForFolderLoop(folder, tasks, 1, folders, fs, abbreviations, <<>>)

FolderOf(folders, uri) == folders[CHOOSE k \in DOMAIN folders : folders[k].uri = uri]

(* The loop of getDedicatedTasks over the host's tasks.                    *)
RECURSIVE TasksLoop(_, _, _, _, _, _)
TasksLoop(tasks, k, folders, fs, abbreviations, acc) ==
    IF k > Len(tasks) THEN Ok(acc)
    ELSE LET r == getDedicatedTaskConfig(tasks[k], folders, fs)
             uri == getTaskWorkspaceFolder(tasks[k], folders)
         IN  IF r.threw THEN Thrown(acc)
             ELSE IF Shown(r.value) /\ uri # 0
                  THEN TasksLoop(tasks, k + 1, folders, fs, abbreviations,
                           Append(acc, ItemOf("task", tasks[k].name, uri,
                                              getFolderAbbreviation(abbreviations,
                                                                    FolderOf(folders, uri)),
                                              r.value.config)))
                  ELSE TasksLoop(tasks, k + 1, folders, fs, abbreviations, acc)

getDedicatedTasks(tasks, folders, fs, abbreviations) ==
    TasksLoop(tasks, 1, folders, fs, abbreviations, <<>>)

(* for (const config of launchConfig.configurations): reading              *)
(* config.dedicatedTasks of a null entry throws; the configurations pushed *)
(* before stay in dedicatedConfigs.                                        *)
RECURSIVE LaunchLoop(_, _, _, _, _)
LaunchLoop(entries, k, folder, abbreviations, acc) ==
    IF k > Len(entries) THEN Ok(acc)
    ELSE IF entries[k].nullish THEN Thrown(acc)
    ELSE IF Shown(entries[k].block)
         THEN LaunchLoop(entries, k + 1, folder, abbreviations,
                  Append(acc, ItemOf("launch", entries[k].name, folder.uri,
                                     getFolderAbbreviation(abbreviations, folder),
                                     entries[k].block.config)))
         ELSE LaunchLoop(entries, k + 1, folder, abbreviations, acc)

(* The body of the try of getDedicatedLaunchConfigsForFolder.              *)
ReadLaunchConfigs(folder, file, abbreviations) ==
    IF openTextDocument(file).threw THEN Thrown(<<>>)
    ELSE LET launchConfig == parseJsonWithComments(file)
         IN  IF launchConfig.nullish \/ ~launchConfig.hasArray THEN Ok(<<>>)
             ELSE LaunchLoop(launchConfig.entries, 1, folder, abbreviations, <<>>)

(* catch { } and then return dedicatedConfigs *)
CatchLaunchJson(r) == Ok(r.value)

getDedicatedLaunchConfigsForFolder(folder, fs, abbreviations) ==
    CatchLaunchJson(ReadLaunchConfigs(folder, MapGet(fs, folder.uri).launch, abbreviations))

RECURSIVE LaunchFoldersLoop(_, _, _, _, _)
LaunchFoldersLoop(folders, k, fs, abbreviations, acc) ==
    IF k > Len(folders) THEN Ok(acc)
    ELSE LET r == getDedicatedLaunchConfigsForFolder(folders[k], fs, abbreviations)
         IN  IF r.threw THEN Thrown(acc)
             ELSE LaunchFoldersLoop(folders, k + 1, fs, abbreviations, acc \o r.value)

getDedicatedLaunchConfigs(folders, fs, abbreviations) ==
    LaunchFoldersLoop(folders, 1, fs, abbreviations, <<>>)

(* getAllTasks: [...tasks, ...launchConfigs] *)
getAllTasks(tasks, folders, fs, abbreviations) ==
    LET t == getDedicatedTasks(tasks, folders, fs, abbreviations)
        l == getDedicatedLaunchConfigs(folders, fs, abbreviations)
    IN  IF t.threw \/ l.threw THEN Thrown(<<>>) ELSE Ok(t.value \o l.value)

(* buildHierarchyForFolder: the items read for the folder, filtered, as a  *)
(* hierarchy; items is the list the leaves of the hierarchy refer to.      *)
buildHierarchyForFolder(folder, tasks, folders, fs, abbreviations, filter) ==
    TheOne({ TheOne({ IF t.threw \/ l.threw \/ built.threw
                      THEN Thrown([items |-> <<>>, children |-> <<>>])
                      ELSE Ok([items |-> [k \in DOMAIN built.kept |->
                                             (t.value \o l.value)[built.kept[k]]],
                               children |-> built.children]) :
                        built \in { buildFilteredHierarchy(t.value \o l.value, folder.uri,
                                                           filter) } }) :
               t \in { getDedicatedTasksForFolder(folder, tasks, folders, fs, abbreviations) },
               l \in { getDedicatedLaunchConfigsForFolder(folder, fs, abbreviations) } })

(* new WorkspaceFolderItem(folder, abbreviation, children, isExpanded) and *)
(* child.parent = folderItem for each of the children; an item that is a   *)
(* child and also listed under a group is one object.                      *)
WorkspaceFolderItem(folder, abbreviation, built, isExpanded) ==
    [type |-> "folder", label |-> folder.name, path |-> <<>>, item |-> 0,
     folder |-> folder.uri, abbreviation |-> abbreviation, items |-> built.items,
     children |-> TheOne({ WithSharedParents(children, ParentAssignments(children)) :
                             children \in { [k \in DOMAIN built.children |->
                                               [built.children[k]
                                                  EXCEPT !.parent = FolderRef(folder.uri)]] } }),
     id |-> <<"folder", ":", folder.uri>>, expanded |-> isExpanded,
     hasDescription |-> TRUE, description |-> 0, parent |-> NoParent]

(* new MessageItem(`No tasks matching "${this.filterText}"`, 'search') *)
MessageItem(filter) ==
    [type |-> "message", label |-> filter, path |-> <<>>, item |-> 0, children |-> <<>>,
     id |-> <<>>, expanded |-> FALSE, hasDescription |-> FALSE, description |-> 0,
     parent |-> NoParent]

(* The loop of getChildren() over the folders of a multi-folder workspace: *)
(* a folder is added if (children.length > 0 || !this.filterText).         *)
RECURSIVE FolderItemsLoop(_, _, _, _, _, _, _)
FolderItemsLoop(folders, k, tasks, fs, abbreviations, filter, folderItems) ==
    IF k > Len(folders) THEN Ok(folderItems)
    ELSE TheOne({ IF children.threw THEN Thrown(<<>>)
                  ELSE FolderItemsLoop(folders, k + 1, tasks, fs, abbreviations, filter,
                           IF children.value.children # <<>> \/ filter = <<>>
                           THEN Append(folderItems,
                                       WorkspaceFolderItem(folders[k],
                                           getFolderAbbreviation(abbreviations, folders[k]),
                                           children.value, filter # <<>>))
                           ELSE folderItems) :
                    children \in { buildHierarchyForFolder(folders[k], tasks, folders, fs,
                                                           abbreviations, filter) } })

(* getChildren(undefined): the hierarchy of a single folder, the folder    *)
(* items of several folders, or the message that nothing matches.          *)
getChildren(folders, tasks, fs, abbreviations, filter) ==
    IF folders = <<>> THEN Ok(<<>>)
    ELSE IF Len(folders) = 1
    THEN TheOne({ IF hierarchyOfFolder.threw THEN Thrown(<<>>)
                  ELSE IF hierarchyOfFolder.value.children = <<>> /\ filter # <<>>
                  THEN Ok(<<MessageItem(filter)>>)
                  ELSE Ok(hierarchyOfFolder.value.children) :
                    hierarchyOfFolder \in { buildHierarchyForFolder(folders[1], tasks, folders,
                                                                    fs, abbreviations, filter) } })
    ELSE TheOne({ IF folderItems.threw THEN Thrown(<<>>)
                  ELSE IF folderItems.value = <<>> /\ filter # <<>>
                  THEN Ok(<<MessageItem(filter)>>)
                  ELSE folderItems :
                    folderItems \in { FolderItemsLoop(folders, 1, tasks, fs, abbreviations,
                                                      filter, <<>>) } })

(* getParent(element): element.parent for a task, a launch configuration  *)
(* or a group, undefined for a folder item or a message.                   *)
getParent(element) ==
    IF element.type \in {"task", "launch", "group"} THEN element.parent ELSE NoParent

(* The body of the try of loadAllConfigs for one folder.                   *)
ReadFolderSelection(file) ==
    IF readFile(file).threw THEN Thrown(EmptyFolderConfig)
    ELSE LET parsed == JSONParse(file, NullSelection)
         IN  IF parsed.threw \/ parsed.value.nullish THEN Thrown(EmptyFolderConfig)
             ELSE IF parsed.value.hasStatusBar THEN Ok(parsed.value.statusBar)
             ELSE Ok(EmptyFolderConfig)

(* catch { result.folders.set(uri, { itemNames: [], groups: [] }); } *)
CatchDedicatedJson(r) == IF r.threw THEN Ok(EmptyFolderConfig) ELSE r

RECURSIVE LoadLoop(_, _, _, _)
LoadLoop(folders, k, fs, acc) ==
    IF k > Len(folders) THEN Ok(acc)
    ELSE LET r == CatchDedicatedJson(ReadFolderSelection(MapGet(fs, folders[k].uri).dedicated))
         IN  IF r.threw THEN Thrown(acc)
             ELSE LoadLoop(folders, k + 1, fs, MapSet(acc, folders[k].uri, r.value))

loadAllConfigs(folders, fs) == LoadLoop(folders, 1, fs, <<>>)


(***************************************************************************)
(* parseJsonWithComments on the characters of a text.  The texts are over  *)
(* the characters ", /, *, a and the line feed; over these a text is JSON  *)
(* exactly when it is one string literal between white space.              *)
(***************************************************************************)
Quote == "\""
LineFeed == "\n"

(* the first index from k on at which the text holds the two characters,   *)
(* 0 for none                                                              *)
IndexOfPair(text, first, second, k) ==
    IF \E j \in k..(Len(text) - 1) : text[j] = first /\ text[j + 1] = second
    THEN CHOOSE j \in k..(Len(text) - 1) :
            /\ text[j] = first /\ text[j + 1] = second
            /\ \A i \in k..(j - 1) : ~(text[i] = first /\ text[i + 1] = second)
    ELSE 0

(* the text from index k on *)
From(text, k) == SubSeq(text, k, Len(text))

(* text.replaceAll(/\/\*[\s\S]*?\*\//g, ''): from the left, each "/*" that *)
(* has a "*/" after it is removed up to the first such "*/".               *)
RECURSIVE RemoveBlockComments(_)
RemoveBlockComments(text) ==
    IF Len(text) < 2 THEN text
    ELSE IF text[1] = "/" /\ text[2] = "*" /\ IndexOfPair(text, "*", "/", 3) # 0
         THEN RemoveBlockComments(From(text, IndexOfPair(text, "*", "/", 3) + 2))
         ELSE <<text[1]>> \o RemoveBlockComments(Tail(text))

(* the text from its first line terminator on *)
RECURSIVE FromLineEnd(_)
FromLineEnd(text) ==
    IF text = <<>> \/ Head(text) = LineFeed THEN text ELSE FromLineEnd(Tail(text))

(* text.replaceAll(/\/\/.*/g, ''): from the left, each "//" is removed up  *)
(* to the end of its line.                                                 *)
RECURSIVE RemoveLineComments(_)
RemoveLineComments(text) ==
    IF Len(text) < 2 THEN text
    ELSE IF text[1] = "/" /\ text[2] = "/"
         THEN RemoveLineComments(FromLineEnd(text))
         ELSE <<text[1]>> \o RemoveLineComments(Tail(text))

withoutComments(text) == RemoveLineComments(RemoveBlockComments(text))

(* white space before and after a JSON value *)
RECURSIVE SkipWhiteSpace(_)
SkipWhiteSpace(text) ==
    IF text # <<>> /\ Head(text) = LineFeed THEN SkipWhiteSpace(Tail(text)) ELSE text

RECURSIVE DropWhiteSpaceAtEnd(_)
DropWhiteSpaceAtEnd(text) ==
    IF text # <<>> /\ text[Len(text)] = LineFeed
    THEN DropWhiteSpaceAtEnd(SubSeq(text, 1, Len(text) - 1))
    ELSE text

(* The values parseJsonWithComments returns: undefined, or a string.       *)
Undefined == [undefined |-> TRUE, chars |-> <<>>]
StringValue(chars) == [undefined |-> FALSE, chars |-> chars]

(* JSON.parse(text) on such a text: the string of the one string literal,  *)
(* a SyntaxError for anything else; a string literal holds no quote and no *)
(* line feed.                                                              *)
JSONParseText(text) ==
    LET literal == DropWhiteSpaceAtEnd(SkipWhiteSpace(text))
        chars == SubSeq(literal, 2, Len(literal) - 1)
    IN  IF /\ Len(literal) >= 2
           /\ literal[1] = Quote /\ literal[Len(literal)] = Quote
           /\ \A k \in DOMAIN chars : chars[k] \notin {Quote, LineFeed}
        THEN Ok(StringValue(chars))
        ELSE Thrown(Undefined)

(* try { return JSON.parse(withoutComments); } catch { return undefined; } *)
parseJsonWithCommentsOfText(text) ==
    LET parsed == JSONParseText(withoutComments(text))
    IN  IF parsed.threw THEN Ok(Undefined) ELSE parsed

(***************************************************************************)
(* configureStatusBar and saveConfigForFolder                              *)
(***************************************************************************)
(* vscode.workspace.fs.writeFile(uri, content): the file then holds the    *)
(* text written; the write rejects where the file cannot be accessed.      *)
writeFile(file, v) == IF file.kind = "unreadable" THEN Thrown(file) ELSE Ok(JsonText(v))

(* const configData = { statusBar: folderConfig };                         *)
(* writeFile(configUri, encode(JSON.stringify(configData, null, 2)))       *)
saveConfigForFolder(cfg, folder, fs) ==
    LET configData == ObjectWithStatusBar(FolderConfigOf(cfg, folder.uri))
        written == writeFile(MapGet(fs, folder.uri).dedicated, configData)
    IN  IF written.threw THEN Thrown(fs)
        ELSE Ok(MapSet(fs, folder.uri,
                       [MapGet(fs, folder.uri) EXCEPT !.dedicated = written.value]))

(* The entries of the quick pick that can be picked: one per item of a     *)
(* folder of the workspace, one per group path and parent path of its      *)
(* groups.                                                                 *)
ItemPick(item) ==
    [type |-> "item", itemName |-> item.name, groupPath |-> <<>>, folderUri |-> item.folder]

GroupPick(groupPath, folderUri) ==
    [type |-> "group", itemName |-> "", groupPath |-> groupPath, folderUri |-> folderUri]

QuickPickItems(items, folders) ==
    LET known == { k \in DOMAIN items :
                     \E f \in DOMAIN folders : folders[f].uri = items[k].folder }
        groupPathOf(k, g) == NormalizeGroup(items[k].config.groups[g])
    IN  { ItemPick(items[k]) : k \in known }
        \cup UNION { UNION { { GroupPick(SubSeq(groupPathOf(k, g), 1, depth), items[k].folder) :
                                 depth \in 1..Len(groupPathOf(k, g)) } :
                             g \in DOMAIN items[k].config.groups } :
                     k \in known }

(* isGroupSelected(folderUri, path) and isItemSelected(folderUri, itemName) *)
(* on this.config: what the quick pick shows as picked.                    *)
isGroupSelected(cfg, folderUri, path) ==
    \E g \in DOMAIN FolderConfigOf(cfg, folderUri).groups :
        FolderConfigOf(cfg, folderUri).groups[g] = path

isItemSelected(cfg, folderUri, itemName) ==
    \E n \in DOMAIN FolderConfigOf(cfg, folderUri).itemNames :
        FolderConfigOf(cfg, folderUri).itemNames[n] = itemName

(* `for (const group of item.config.groups)` throws for an item of a known *)
(* folder whose block has no groups.                                       *)
configureStatusBarThrows(items, folders) ==
    \E k \in DOMAIN items :
        /\ \E f \in DOMAIN folders : folders[f].uri = items[k].folder
        /\ ~GroupsIterable(items[k])

(* folderSelections: an empty selection for every folder, then each pick   *)
(* pushed to the selection of its folder.                                  *)
RECURSIVE ProcessSelections(_, _, _)
ProcessSelections(selected, k, folderSelections) ==
    IF k > Len(selected) THEN folderSelections
    ELSE LET sel == selected[k]
             folderSel == MapGet(folderSelections, sel.folderUri)
         IN  ProcessSelections(selected, k + 1,
                 IF ~MapHas(folderSelections, sel.folderUri) THEN folderSelections
                 ELSE IF sel.type = "item" /\ sel.itemName # ""
                 THEN MapSet(folderSelections, sel.folderUri,
                             [folderSel EXCEPT !.itemNames = Append(@, sel.itemName)])
                 ELSE IF sel.type = "group"
                 THEN MapSet(folderSelections, sel.folderUri,
                             [folderSel EXCEPT !.groups = Append(@, sel.groupPath)])
                 ELSE folderSelections)

(* for (const [folderUri, selections] of folderSelections) {               *)
(*   this.config.folders.set(folderUri, selections);                       *)
(*   await this.saveConfigForFolder(folder); }                             *)
RECURSIVE SaveLoop(_, _, _, _)
SaveLoop(folderSelections, k, folders, acc) ==
    IF k > Len(folderSelections) \/ acc.threw THEN acc
    ELSE LET cfg == MapSet(acc.config, folderSelections[k].key, folderSelections[k].value)
             found == { f \in DOMAIN folders : folders[f].uri = folderSelections[k].key }
             saved == IF found = {} THEN Ok(acc.files)
                      ELSE saveConfigForFolder(cfg, folders[CHOOSE f \in found : TRUE],
                                               acc.files)
         IN  SaveLoop(folderSelections, k + 1, folders,
                      [config |-> cfg, files |-> saved.value, threw |-> saved.threw])

(* showQuickPick resolves with undefined when the pick is dismissed.       *)
Dismissed == [picked |-> FALSE, selected |-> <<>>]
Picked(selected) == [picked |-> TRUE, selected |-> selected]

(* configureStatusBar(allItems) with the answer of the quick pick: the     *)
(* configuration, the files and the status bar it leaves.                  *)
configureStatusBar(items, cfg, folders, fs, bar, sbItems, answer) ==
    LET unchanged == [config |-> cfg, files |-> fs, statusBar |-> bar,
                      statusBarItems |-> sbItems, threw |-> FALSE]
        empty == [f \in DOMAIN folders |-> [key |-> folders[f].uri, value |-> EmptyFolderConfig]]
        saved == SaveLoop(ProcessSelections(answer.selected, 1, empty), 1, folders,
                          [config |-> cfg, files |-> fs, threw |-> FALSE])
        st == updateStatusBar(items, saved.config, folders, bar, sbItems)
    IN  IF configureStatusBarThrows(items, folders) THEN [unchanged EXCEPT !.threw = TRUE]
        ELSE IF ~answer.picked THEN unchanged
        ELSE IF saved.threw
        THEN [unchanged EXCEPT !.config = saved.config, !.files = saved.files, !.threw = TRUE]
        ELSE [config |-> saved.config, files |-> saved.files, statusBar |-> st.statusBar,
              statusBarItems |-> st.statusBarItems, threw |-> FALSE]
(***************************************************************************)
(* The parts of the state an operation does not use stay as constructed.   *)
(***************************************************************************)
IdleUi == contextKeys = [filterActive |-> FALSE] /\ treeChanges = 0
IdleTree == allItems = <<>> /\ hierarchy = <<>> /\ filterText = <<>> /\ IdleUi
IdleAbbr == workspaceFolders = <<>> /\ folderAbbreviations = <<>>
IdleStatus == config = <<>> /\ statusBarItems = <<>> /\ statusBar = <<>>

NoResult == [subject |-> 0, threw |-> FALSE, value |-> <<>>]
IdleAsync == handlers = {} /\ history = <<>>
IdleConfig == files = <<>> /\ hostTasks = <<>> /\ result = NoResult /\ IdleAsync
(***************************************************************************)
(* The inputs of the tree: lists of at most MaxTreeItems items, the tasks  *)
(* before the launch configurations (buildHierarchyForFolder passes        *)
(* [...tasks, ...launchConfigs]).                                          *)
(***************************************************************************)
MaxTreeItems == 2

TreeGroupLists ==
    { <<>>,
      <<Str("a")>>,
      <<Arr(<<"a", "b">>)>>,
      <<Arr(<<"B">>), Arr(<<"a", "b">>)>>,
      <<Arr(<<"b", "a">>), Str("b")>>,
      <<Str("a"), Arr(<<"a">>)>>,
      <<Arr(<<>>)>> }

TreeOrders == { [hasOrder |-> FALSE, order |-> 0],
                [hasOrder |-> TRUE, order |-> -1],
                [hasOrder |-> TRUE, order |-> 1] }

TreeItemChoices ==
    { Item(t, "run", 1, <<"A", "B", "X">>, g, o) : t \in {"task", "launch"}, g \in TreeGroupLists, o \in TreeOrders }

TasksFirst(items) ==
    \A i, j \in 1..Len(items) : (i < j /\ items[i].itemType = "launch") => items[j].itemType = "launch"

InitTree ==
    /\ pc = "ready"
    /\ allItems \in {s \in SeqsUpTo(TreeItemChoices, MaxTreeItems) : TasksFirst(s)}
    /\ hierarchy = <<>>
    /\ filterText = <<>> /\ IdleUi
    /\ IdleAbbr /\ IdleStatus /\ IdleConfig

BuildHierarchy ==
    /\ pc = "ready"
    /\ hierarchy' = buildHierarchyFromItems(allItems, NoFolder, filterText)
    /\ pc' = "done"
    /\ UNCHANGED <<allItems, filterText, uiVars, abbrVars, sbVars, cfgVars, asyncVars>>

NextTree == BuildHierarchy

SpecTree == InitTree /\ [][NextTree]_vars

(***************************************************************************)
(* The inputs of generateFolderAbbreviations: the workspace grows to at    *)
(* most MaxFolders folders with distinct URIs, the names of one workspace  *)
(* taken from one pool.                                                    *)
(***************************************************************************)
MaxFolders == 12

NamePools ==
    { { <<"a", "b">>, <<"F", "0", "2">> },
      { <<"-">>, <<"_">> },
      { <<"a", "b", "i", "d", "e">>, <<"a", ".", "b", " ", "c">> },
      { <<"x", "x", "x">>, <<".", "a">> } }

InitAbbr ==
    /\ pc = "ready"
    /\ workspaceFolders = <<>>
    /\ folderAbbreviations = <<>>
    /\ IdleTree /\ IdleStatus /\ IdleConfig

(* The host adds a folder to vscode.workspace.workspaceFolders.            *)
AddWorkspaceFolder ==
    /\ pc = "ready"
    /\ Len(workspaceFolders) < MaxFolders
    /\ \E pool \in NamePools : \E name \in pool :
           /\ \A k \in DOMAIN workspaceFolders : workspaceFolders[k].name \in pool
           /\ workspaceFolders' =
                  Append(workspaceFolders, [name |-> name, uri |-> Len(workspaceFolders) + 1])
    /\ UNCHANGED <<pc, folderAbbreviations, treeVars, sbVars, cfgVars, asyncVars>>

GenerateFolderAbbreviations ==
    /\ pc = "ready"
    /\ folderAbbreviations' = generateFolderAbbreviations(workspaceFolders)
    /\ pc' = "done"
    /\ UNCHANGED <<workspaceFolders, treeVars, sbVars, cfgVars, asyncVars>>

NextAbbr == AddWorkspaceFolder \/ GenerateFolderAbbreviations

SpecAbbr == InitAbbr /\ [][NextAbbr]_vars

(***************************************************************************)
(* The inputs of updateStatusBar: a workspace of one or two folders, a     *)
(* selection per folder (or the configuration as constructed, not loaded   *)
(* yet) and at most MaxStatusItems items of these folders.                 *)
(***************************************************************************)
MaxStatusItems == 2

StatusWorkspaces ==
    { <<[name |-> <<"a", "b">>, uri |-> 1]>>,
      <<[name |-> <<"a", "b">>, uri |-> 1], [name |-> <<"a", "b", "i", "d", "e">>, uri |-> 2]>> }

StatusSelections ==
    { [itemNames |-> n, groups |-> g] :
        n \in { <<>>, <<"run">> },
        g \in { <<>>, << <<"a">> >>, << <<"a", "b">>, <<"b">> >> } }

StatusConfigs(folders) ==
    { [k \in DOMAIN folders |-> [key |-> folders[k].uri, value |-> sel[k]]] :
        sel \in [DOMAIN folders -> StatusSelections] } \cup { <<>> }

StatusItemShapes ==
    { [name |-> "run", groups |-> <<Str("a")>>, ord |-> [hasOrder |-> FALSE, order |-> 0]],
      [name |-> "run", groups |-> <<Arr(<<"b">>), Arr(<<"a", "b">>)>>,
       ord |-> [hasOrder |-> TRUE, order |-> 1]],
      [name |-> "dbg", groups |-> <<Arr(<<"a", "b">>)>>,
       ord |-> [hasOrder |-> TRUE, order |-> -1]] }

(* The tree provider builds an item with the tag of its folder.            *)
StatusItemChoices(folders) ==
    { Item(t, s.name, folders[k].uri,
           MapGet(generateFolderAbbreviations(folders), folders[k].uri), s.groups, s.ord) :
        t \in {"task", "launch"}, s \in StatusItemShapes, k \in DOMAIN folders }

(* The host lists a task, and launch.json a configuration, once each.      *)
ListedOnce(items) ==
    \A i, j \in DOMAIN items :
        i # j => ~(/\ items[i].itemType = items[j].itemType
                   /\ items[i].folder = items[j].folder
                   /\ items[i].name = items[j].name)

InitStatus ==
    /\ pc = "ready"
    /\ workspaceFolders \in StatusWorkspaces
    /\ folderAbbreviations = generateFolderAbbreviations(workspaceFolders)
    /\ config \in StatusConfigs(workspaceFolders)
    /\ allItems \in {s \in SeqsUpTo(StatusItemChoices(workspaceFolders), MaxStatusItems) :
                          ListedOnce(s)}
    /\ statusBarItems = <<>>
    /\ statusBar = <<>>
    /\ hierarchy = <<>>
    /\ filterText = <<>> /\ IdleUi
    /\ IdleConfig

(* statusBarManager.updateStatusBar(items) *)
UpdateStatusBar ==
    /\ pc = "ready"
    /\ LET st == updateStatusBar(allItems, config, workspaceFolders, statusBar, statusBarItems)
       IN  /\ statusBar' = st.statusBar
           /\ statusBarItems' = st.statusBarItems
    /\ folderAbbreviations' = generateFolderAbbreviations(workspaceFolders)
    /\ pc' = "done"
    /\ UNCHANGED <<allItems, hierarchy, filterText, uiVars, workspaceFolders, config, cfgVars, asyncVars>>

NextStatus == UpdateStatusBar

SpecStatus == InitStatus /\ [][NextStatus]_vars

(***************************************************************************)
(* Reading the configuration of a workspace of two folders.  The files of  *)
(* the first folder are in any state; the second folder is one whose files *)
(* are missing or well-formed.  The StatusBarManager is as constructed     *)
(* (config empty) until reloadConfig has run.                              *)
(***************************************************************************)
ConfigWorkspace ==
    <<[name |-> <<"a", "b">>, uri |-> 1], [name |-> <<"a", "b", "i", "d", "e">>, uri |-> 2]>>

HostTask(name, scope) == [name |-> name, scope |-> scope]

HostTaskLists ==
    { <<HostTask("run", 1), HostTask("run", 2)>>,
      <<HostTask("run", 0), HostTask("dbg", 1), HostTask("run", 2)>> }

GoodBlock == Block(Config(<<Str("a")>>, NoOrder))
HiddenBlock == Block([Config(<<Str("a")>>, NoOrder) EXCEPT !.hide = TRUE])
BlockWithoutGroups == Block([Config(<<>>, NoOrder) EXCEPT !.groupsDefined = FALSE])
BlockWithNumberGroup == Block(Config(<<Num("5")>>, NoOrder))

TasksJsonChoices ==
    { MissingFile, UnreadableFile, UnparsableText,
      JsonText(Nullish),
      JsonText(ObjectWithoutArray),
      JsonText(ObjectWith(<<Entry("run", GoodBlock)>>)),
      JsonTextWithComments(ObjectWith(<<Entry("run", GoodBlock)>>)),
      JsonText(ObjectWith(<<NullEntry, Entry("run", GoodBlock)>>)),
      JsonText(ObjectWith(<<Entry("dbg", GoodBlock), Entry("run", NoBlock)>>)),
      JsonText(ObjectWith(<<Entry("run", HiddenBlock)>>)),
      JsonText(ObjectWith(<<Entry("run", BlockWithoutGroups)>>)),
      JsonText(ObjectWith(<<Entry("run", BlockWithNumberGroup)>>)) }

LaunchJsonChoices ==
    { MissingFile, UnparsableText,
      JsonText(Nullish),
      JsonText(ObjectWithoutArray),
      JsonTextWithComments(ObjectWith(<<Entry("dbg", GoodBlock)>>)),
      JsonText(ObjectWith(<<Entry("dbg", GoodBlock), NullEntry, Entry("run", GoodBlock)>>)),
      JsonText(ObjectWith(<<Entry("dbg", HiddenBlock)>>)),
      JsonText(ObjectWith(<<Entry("dbg", BlockWithoutGroups)>>)) }

DedicatedJsonChoices ==
    { MissingFile, UnreadableFile, UnparsableText,
      JsonText(NullSelection),
      JsonText(ObjectWithoutStatusBar),
      JsonText(ObjectWithStatusBar([itemNames |-> <<"run">>, groups |-> <<>>])),
      JsonTextWithComments(ObjectWithStatusBar([itemNames |-> <<>>, groups |-> << <<"a">> >>])) }

FolderFiles(t, l, d) == [tasks |-> t, launch |-> l, dedicated |-> d]

AnyFolderFiles ==
    { FolderFiles(t, l, d) :
        t \in TasksJsonChoices, l \in LaunchJsonChoices, d \in DedicatedJsonChoices }

SoundFolderFiles ==
    { FolderFiles(t, l, d) :
        t \in { JsonText(ObjectWith(<<Entry("run", GoodBlock)>>)) },
        l \in { MissingFile, JsonText(ObjectWith(<<Entry("dbg", GoodBlock)>>)) },
        d \in { MissingFile,
                JsonText(ObjectWithStatusBar([itemNames |-> <<"dbg">>, groups |-> << <<"a">> >>])) } }

InitConfig ==
    /\ pc = "ready"
    /\ workspaceFolders = ConfigWorkspace
    /\ folderAbbreviations = <<>>
    /\ files \in { <<[key |-> 1, value |-> a], [key |-> 2, value |-> b]>> :
                     a \in AnyFolderFiles, b \in SoundFolderFiles }
    /\ hostTasks \in HostTaskLists
    /\ result = NoResult
    /\ IdleTree /\ IdleStatus /\ IdleAsync

(* The provider and the manager generate the tags when they have none.     *)
EnsureAbbreviations ==
    IF folderAbbreviations = <<>> THEN generateFolderAbbreviations(workspaceFolders)
    ELSE folderAbbreviations

(* getDedicatedTaskConfig(task) for a task the host lists *)
GetDedicatedTaskConfig ==
    /\ pc = "ready"
    /\ \E k \in DOMAIN hostTasks :
        LET r == getDedicatedTaskConfig(hostTasks[k], workspaceFolders, files)
        IN  result' = [subject |-> k, threw |-> r.threw, value |-> r.value]
    /\ pc' = "getDedicatedTaskConfig"
    /\ UNCHANGED <<treeVars, abbrVars, sbVars, files, hostTasks, asyncVars>>

(* getDedicatedLaunchConfigsForFolder(folder) for a folder of the workspace *)
GetDedicatedLaunchConfigsForFolder ==
    /\ pc = "ready"
    /\ folderAbbreviations' = EnsureAbbreviations
    /\ \E k \in DOMAIN workspaceFolders :
        LET r == getDedicatedLaunchConfigsForFolder(workspaceFolders[k], files,
                                                    folderAbbreviations')
        IN  result' = [subject |-> workspaceFolders[k].uri, threw |-> r.threw,
                       value |-> r.value]
    /\ pc' = "getDedicatedLaunchConfigsForFolder"
    /\ UNCHANGED <<treeVars, workspaceFolders, sbVars, files, hostTasks, asyncVars>>

(* reloadConfig: this.config = await this.loadAllConfigs() *)
ReloadConfig ==
    /\ pc = "ready"
    /\ folderAbbreviations' = generateFolderAbbreviations(workspaceFolders)
    /\ LET r == loadAllConfigs(workspaceFolders, files)
       IN  /\ config' = IF r.threw THEN config ELSE r.value
           /\ result' = [subject |-> 0, threw |-> r.threw, value |-> <<>>]
    /\ pc' = "reloadConfig"
    /\ UNCHANGED <<treeVars, workspaceFolders, statusBarItems, statusBar, files, hostTasks, asyncVars>>

(* getChildren() at the root *)
GetChildren ==
    /\ pc = "ready"
    /\ folderAbbreviations' = EnsureAbbreviations
    /\ LET r == getChildren(workspaceFolders, hostTasks, files, folderAbbreviations', filterText)
       IN  result' = [subject |-> 0, threw |-> r.threw, value |-> r.value]
    /\ pc' = "getChildren"
    /\ UNCHANGED <<treeVars, workspaceFolders, sbVars, files, hostTasks, asyncVars>>

(* The extension's updateStatusBar: getAllTasks(), then                    *)
(* statusBarManager.updateStatusBar(tasks).                                *)
UpdateStatusBarOfExtension ==
    /\ pc \in {"ready", "reloadConfig"}
    /\ folderAbbreviations' = generateFolderAbbreviations(workspaceFolders)
    /\ LET tasks == getAllTasks(hostTasks, workspaceFolders, files, EnsureAbbreviations)
           st == updateStatusBar(tasks.value, config, workspaceFolders, statusBar, statusBarItems)
       IN  IF tasks.threw
           THEN /\ result' = [subject |-> 0, threw |-> TRUE, value |-> <<>>]
                /\ UNCHANGED <<allItems, statusBar, statusBarItems>>
           ELSE /\ allItems' = tasks.value
                /\ statusBar' = st.statusBar
                /\ statusBarItems' = st.statusBarItems
                /\ result' = [subject |-> 0, threw |-> st.threw, value |-> <<>>]
    /\ pc' = "updateStatusBar"
    /\ UNCHANGED <<hierarchy, filterText, uiVars, workspaceFolders, config, files, hostTasks, asyncVars>>

NextConfig ==
    \/ GetDedicatedTaskConfig
    \/ GetDedicatedLaunchConfigsForFolder
    \/ ReloadConfig
    \/ GetChildren
    \/ UpdateStatusBarOfExtension

SpecConfig == InitConfig /\ [][NextConfig]_vars

(***************************************************************************)
(* Activation and the file watchers.  activate() constructs the            *)
(* StatusBarManager, whose constructor starts loadConfigAsync() without    *)
(* awaiting it, and calls updateStatusBar() without awaiting it; a watcher *)
(* event starts a handler.  A handler in flight is at one of its awaits:   *)
(* it first reads (the files as they are at that moment), and finishes     *)
(* later; the awaits of different handlers complete in any order.  The     *)
(* several awaits of one read (one per folder, one per task) are taken as  *)
(* one step.                                                               *)
(***************************************************************************)
MaxEvents == 2

Handler(kind, seq, andUpdate) ==
    [kind |-> kind, seq |-> seq, step |-> "read", readAt |-> 0, acc |-> <<>>,
     andUpdate |-> andUpdate]

(* What a status bar shows: the items of its entries.                      *)
ShownItems(bar, items) ==
    { [itemType |-> items[bar[k].item].itemType, name |-> items[bar[k].item].name,
       folder |-> items[bar[k].item].folder] : k \in DOMAIN bar }

AsyncTasksJson == { MissingFile, JsonText(ObjectWith(<<Entry("run", GoodBlock)>>)) }
AsyncLaunchJson == { MissingFile, JsonText(ObjectWith(<<Entry("dbg", GoodBlock)>>)) }
AsyncDedicatedJson ==
    { MissingFile,
      JsonText(ObjectWithStatusBar([itemNames |-> <<"run">>, groups |-> <<>>])),
      JsonText(ObjectWithStatusBar([itemNames |-> <<>>, groups |-> << <<"a">> >>])) }

WatchedFiles(name) ==
    IF name = "tasks" THEN AsyncTasksJson
    ELSE IF name = "launch" THEN AsyncLaunchJson ELSE AsyncDedicatedJson

(* The state when activate() has returned.                                 *)
InitAsync ==
    /\ pc = "ready"
    /\ workspaceFolders = ConfigWorkspace
    /\ folderAbbreviations = generateFolderAbbreviations(workspaceFolders)
    /\ hostTasks = <<HostTask("run", 1), HostTask("run", 2)>>
    /\ \E t \in AsyncTasksJson \ {MissingFile}, l \in AsyncLaunchJson \ {MissingFile},
          d \in AsyncDedicatedJson \ {MissingFile} :
         files = <<[key |-> 1, value |-> FolderFiles(t, l, d)],
                   [key |-> 2,
                    value |-> FolderFiles(JsonText(ObjectWith(<<Entry("run", GoodBlock)>>)),
                                          MissingFile,
                                          JsonText(ObjectWithStatusBar(
                                              [itemNames |-> <<"run">>, groups |-> <<>>])))]>>
    /\ result = NoResult
    /\ IdleTree /\ IdleStatus
    /\ handlers = { Handler("load", 0, FALSE), Handler("update", 0, FALSE) }
    /\ history = [clock |-> 0, events |-> <<>>, served |-> <<>>, treeChanges |-> 0,
                  updateSeq |-> 0, reloadSeq |-> 0, configAt |-> 0,
                  newestBarSeq |-> -1, newestBar |-> {},
                  newestConfigSeq |-> -1, newestConfig |-> <<>>]

(* A watched file of the first folder is created, changed or deleted.      *)
ChangeFile(name, content) ==
    /\ history.clock < MaxEvents
    /\ content \in WatchedFiles(name)
    /\ MapGet(files, 1)[name] # content
    /\ files' = MapSet(files, 1, [MapGet(files, 1) EXCEPT ![name] = content])

(* tasksJsonWatcher / launchJsonWatcher: tasksProvider.refresh(), which    *)
(* regenerates the abbreviations and fires the tree change, then           *)
(* updateStatusBar().                                                      *)
ItemsFileEvent ==
    /\ \E name \in {"tasks", "launch"} : \E content \in WatchedFiles(name) :
         /\ ChangeFile(name, content)
         /\ history' = [history EXCEPT !.clock = @ + 1,
                                       !.events = Append(@, name),
                                       !.served = Append(@, FALSE),
                                       !.treeChanges = @ + 1,
                                       !.updateSeq = @ + 1]
    /\ folderAbbreviations' = generateFolderAbbreviations(workspaceFolders)
    /\ handlers' = handlers \cup { Handler("update", history'.updateSeq, FALSE) }
    /\ UNCHANGED <<pc, treeVars, workspaceFolders, sbVars, hostTasks, result>>

(* configWatcher: await statusBarManager.reloadConfig(); updateStatusBar(); *)
ConfigFileEvent ==
    /\ \E content \in AsyncDedicatedJson :
         /\ ChangeFile("dedicated", content)
         /\ history' = [history EXCEPT !.clock = @ + 1,
                                       !.events = Append(@, "dedicated"),
                                       !.served = Append(@, FALSE),
                                       !.reloadSeq = @ + 1]
    /\ handlers' = handlers \cup { Handler("load", history'.reloadSeq, TRUE) }
    /\ UNCHANGED <<pc, treeVars, abbrVars, sbVars, hostTasks, result>>

(* loadAllConfigs reads the dedicated-tasks.json of every folder.          *)
ReadConfig ==
    /\ \E h \in handlers :
         /\ h.kind = "load" /\ h.step = "read"
         /\ handlers' = (handlers \ {h})
               \cup { [h EXCEPT !.step = "finish", !.readAt = history.clock,
                                !.acc = loadAllConfigs(workspaceFolders, files).value] }
    /\ UNCHANGED <<pc, treeVars, abbrVars, sbVars, cfgVars, history>>

(* this.config = await this.loadAllConfigs(), and for a watcher's handler  *)
(* the updateStatusBar() that follows the awaited reloadConfig().          *)
AssignConfig ==
    /\ \E h \in handlers :
         /\ h.kind = "load" /\ h.step = "finish"
         /\ config' = h.acc
         /\ LET newest == h.seq > history.newestConfigSeq
                h1 == [history EXCEPT !.configAt = h.readAt,
                          !.newestConfigSeq = IF newest THEN h.seq ELSE @,
                          !.newestConfig = IF newest THEN h.acc ELSE @]
            IN  IF h.andUpdate
                THEN /\ history' = [h1 EXCEPT !.updateSeq = @ + 1]
                     /\ handlers' = (handlers \ {h})
                           \cup { Handler("update", history'.updateSeq, FALSE) }
                ELSE /\ history' = h1
                     /\ handlers' = handlers \ {h}
    /\ UNCHANGED <<pc, treeVars, abbrVars, statusBarItems, statusBar, cfgVars>>

(* const tasks = await tasksProvider.getAllTasks(): a rejection ends the   *)
(* handler.                                                                *)
ReadItems ==
    /\ \E h \in handlers :
         /\ h.kind = "update" /\ h.step = "read"
         /\ LET tasks == getAllTasks(hostTasks, workspaceFolders, files, folderAbbreviations)
            IN  handlers' = (handlers \ {h})
                   \cup (IF tasks.threw THEN {}
                         ELSE { [h EXCEPT !.step = "finish", !.readAt = history.clock,
                                          !.acc = tasks.value] })
    /\ UNCHANGED <<pc, treeVars, abbrVars, sbVars, cfgVars, history>>

(* An event is served by an update that shows items read after it and,     *)
(* for an event of dedicated-tasks.json, a selection read after it.        *)
Serves(h, n) ==
    /\ h.readAt >= n
    /\ history.events[n] = "dedicated" => history.configAt >= n

(* await statusBarManager.updateStatusBar(tasks): with this.config as it   *)
(* is now.                                                                 *)
ApplyUpdate ==
    /\ \E h \in handlers :
         /\ h.kind = "update" /\ h.step = "finish"
         /\ \E st \in { updateStatusBar(h.acc, config, workspaceFolders, statusBar,
                                       statusBarItems) } :
              /\ statusBar' = st.statusBar
              /\ statusBarItems' = st.statusBarItems
              /\ allItems' = h.acc
              /\ history' = [history EXCEPT
                     !.served = [n \in DOMAIN @ |-> @[n] \/ (~st.threw /\ Serves(h, n))],
                     !.newestBarSeq = IF h.seq > @ THEN h.seq ELSE @,
                     !.newestBar = IF h.seq > history.newestBarSeq
                                   THEN ShownItems(st.statusBar, h.acc) ELSE @]
         /\ handlers' = handlers \ {h}
    /\ UNCHANGED <<pc, hierarchy, filterText, uiVars, abbrVars, config, cfgVars>>

NextAsync ==
    \/ ItemsFileEvent
    \/ ConfigFileEvent
    \/ ReadConfig
    \/ AssignConfig
    \/ ReadItems
    \/ ApplyUpdate

SpecAsync == InitAsync /\ [][NextAsync]_vars

(* The event loop resumes every continuation whose awaited read has        *)
(* settled, so a handler that has started runs to its end: as long as      *)
(* handlers are pending, handlers keep ending.                             *)
HandlerEnds == \E h \in handlers : handlers' = handlers \ {h}

SpecAsyncFair == SpecAsync /\ WF_handlers(HandlerEnds)

(***************************************************************************)
(* The command dedicatedTasks.configureStatusBar in a workspace of two     *)
(* folders whose dedicated-tasks.json may hold a custom abbreviation.  The *)
(* manager has loaded the files; the user picks up to MaxPicks entries or  *)
(* dismisses the pick.                                                     *)
(***************************************************************************)
MaxPicks == 2

SaveTasksJson ==
    { JsonText(ObjectWith(<<Entry("run", GoodBlock)>>)),
      JsonText(ObjectWith(<<Entry("run", Block(Config(<<Arr(<<"a", "b">>)>>, NoOrder)))>>)) }

SaveDedicatedJson ==
    { MissingFile, UnreadableFile,
      JsonText(ObjectWithStatusBar([itemNames |-> <<"run">>, groups |-> <<>>])),
      JsonText(ObjectWithStatusBar([itemNames |-> <<"dbg">>, groups |-> << <<"a">> >>])),
      JsonText(WithAbbreviation(ObjectWithStatusBar([itemNames |-> <<"run">>, groups |-> <<>>]),
                                "API")),
      JsonText(WithAbbreviation(ObjectWithoutStatusBar, "API")) }

InitSave ==
    /\ pc = "ready"
    /\ workspaceFolders = ConfigWorkspace
    /\ folderAbbreviations = generateFolderAbbreviations(workspaceFolders)
    /\ hostTasks = <<HostTask("run", 1), HostTask("run", 2)>>
    /\ \E t \in SaveTasksJson, d1 \in SaveDedicatedJson, d2 \in SaveDedicatedJson :
         files = <<[key |-> 1, value |-> FolderFiles(t, MissingFile, d1)],
                   [key |-> 2,
                    value |-> FolderFiles(JsonText(ObjectWith(<<Entry("run", GoodBlock)>>)),
                                          MissingFile, d2)]>>
    /\ config = loadAllConfigs(workspaceFolders, files).value
    /\ allItems = <<>> /\ hierarchy = <<>> /\ filterText = <<>> /\ IdleUi
    /\ statusBarItems = <<>> /\ statusBar = <<>>
    /\ result = NoResult
    /\ IdleAsync

(* What showQuickPick can resolve with: undefined, or picks among the      *)
(* entries offered.                                                        *)
Answers(items, folders) ==
    {Dismissed}
    \cup { Picked(selected) :
             selected \in { s \in SeqsUpTo(QuickPickItems(items, folders), MaxPicks) :
                              \A i, j \in DOMAIN s : i # j => s[i] # s[j] } }

(* const tasks = await tasksProvider.getAllTasks();                        *)
(* await statusBarManager.configureStatusBar(tasks);                       *)
ConfigureStatusBar ==
    /\ pc \in {"ready", "configureStatusBar"}
    /\ folderAbbreviations' = generateFolderAbbreviations(workspaceFolders)
    /\ \E tasks \in { getAllTasks(hostTasks, workspaceFolders, files, folderAbbreviations) } :
         /\ ~tasks.threw
         /\ \E answer \in Answers(tasks.value, workspaceFolders) :
              \E r \in { configureStatusBar(tasks.value, config, workspaceFolders, files,
                                            statusBar, statusBarItems, answer) } :
                /\ config' = r.config
                /\ files' = r.files
                /\ statusBar' = r.statusBar
                /\ statusBarItems' = r.statusBarItems
                /\ allItems' = IF answer.picked /\ ~r.threw THEN tasks.value ELSE allItems
                /\ result' = [subject |-> 0, threw |-> r.threw, value |-> answer]
    /\ pc' = "configureStatusBar"
    /\ UNCHANGED <<hierarchy, filterText, uiVars, workspaceFolders, hostTasks, asyncVars>>

NextSave == ConfigureStatusBar

SpecSave == InitSave /\ [][NextSave]_vars

(***************************************************************************)
(* The filter command on the items of one folder: the user enters a text,  *)
(* setFilter stores it, the tree is rebuilt from the items that match.     *)
(***************************************************************************)
MaxFilterItems == 2

FilterTexts == { <<>>, <<"a">>, <<"A", "b">>, <<"B">>, <<"d">>, <<"x">> }

FilterGroupLists ==
    { <<Str("a")>>, <<Arr(<<"b", "B">>)>>, <<Str("b"), Arr(<<"b", "a">>)>> }

FilterItemChoices ==
    { ItemOf(IF name = "Ab" THEN "task" ELSE "launch", name, 1, <<"A", "B", "X">>,
             [Config(g, NoOrder) EXCEPT !.label = text[1], !.detail = text[2]]) :
        name \in {"Ab", "dE"}, g \in FilterGroupLists,
        text \in { <<"", "">>, <<"Cd", "">>, <<"", "ce">> } }

InitFilter ==
    /\ pc = "ready"
    /\ allItems \in {s \in SeqsUpTo(FilterItemChoices, MaxFilterItems) : TasksFirst(s)}
    /\ hierarchy = <<>>
    /\ filterText = <<>> /\ IdleUi
    /\ IdleAbbr /\ IdleStatus /\ IdleConfig

(* dedicatedTasks.filter: the text of the input box goes to setFilter,     *)
(* which fires the tree change; the context key is set from its length.    *)
SetFilter ==
    /\ pc = "ready"
    /\ \E text \in FilterTexts :
         /\ filterText' = setFilter(text)
         /\ contextKeys' = [contextKeys EXCEPT !.filterActive = Len(text) > 0]
    /\ treeChanges' = treeChanges + 1
    /\ pc' = "setFilter"
    /\ UNCHANGED <<allItems, hierarchy, abbrVars, sbVars, cfgVars, asyncVars>>

(* The tree change that setFilter fires makes the view ask for the         *)
(* children again: buildHierarchyForFolder with the filter set.            *)
BuildFilteredHierarchy ==
    /\ pc = "setFilter"
    /\ \E built \in { buildFilteredHierarchy(allItems, NoFolder, filterText) } :
         /\ hierarchy' = built.children
         /\ result' = [subject |-> 0, threw |-> built.threw, value |-> built.kept]
    /\ pc' = "done"
    /\ UNCHANGED <<allItems, filterText, uiVars, abbrVars, sbVars, files, hostTasks, asyncVars>>

NextFilter == SetFilter \/ BuildFilteredHierarchy

SpecFilter == InitFilter /\ [][NextFilter]_vars

(***************************************************************************)
(* The tree view: the filter commands of the extension and getChildren()   *)
(* at the root, in a workspace of one folder or of two.  The history is    *)
(* the list of the commands run.                                           *)
(***************************************************************************)
MaxCommands == 2

ViewWorkspaces == { <<ConfigWorkspace[1]>>, ConfigWorkspace }

ViewGroupLists ==
    { <<Str("a")>>,
      <<Arr(<<"a", "b">>)>>,
      <<Arr(<<"B">>), Arr(<<"a", "b">>)>>,
      <<Arr(<<"a/b">>)>>,
      <<Arr(<<>>), Str("a")>> }

ViewFolderFiles ==
    { FolderFiles(JsonText(ObjectWith(<<Entry("run", Block(Config(g, NoOrder)))>>)), l,
                  MissingFile) :
        g \in ViewGroupLists,
        l \in { MissingFile }
              \cup { JsonText(ObjectWith(<<Entry("dbg", Block(Config(h, NoOrder)))>>)) :
                       h \in ViewGroupLists } }

(* what the user answers to the input box: undefined, or a text *)
NoInput == [dismissed |-> TRUE, text |-> <<>>]
Input(text) == [dismissed |-> FALSE, text |-> text]
ViewInputs == { NoInput, Input(<<>>), Input(<<"A">>), Input(<<"B">>), Input(<<"d">>), Input(<<"x">>) }

InitView ==
    /\ pc = "ready"
    /\ workspaceFolders \in ViewWorkspaces
    /\ folderAbbreviations = <<>>
    /\ files \in { <<[key |-> 1, value |-> a],
                     [key |-> 2, value |-> FolderFiles(JsonText(ObjectWith(<<Entry("run", GoodBlock)>>)),
                                                       MissingFile, MissingFile)]>> :
                     a \in ViewFolderFiles }
    /\ hostTasks = <<HostTask("run", 1), HostTask("run", 2)>>
    /\ result = NoResult
    /\ IdleTree /\ IdleStatus /\ IdleAsync

(* dedicatedTasks.filter: showInputBox, and if the answer is not undefined *)
(* setFilter(filterText) (which fires the tree change) and                 *)
(* setContext('dedicatedTasks.filterActive', filterText.length > 0).       *)
FilterCommand ==
    /\ pc = "ready"
    /\ Len(history) < MaxCommands
    /\ \E input \in ViewInputs :
         /\ history' = Append(history, [command |-> "filter", input |-> input])
         /\ IF input.dismissed
            THEN UNCHANGED <<filterText, contextKeys, treeChanges>>
            ELSE /\ filterText' = setFilter(input.text)
                 /\ treeChanges' = treeChanges + 1
                 /\ contextKeys' = [contextKeys EXCEPT !.filterActive = Len(input.text) > 0]
    /\ UNCHANGED <<pc, allItems, hierarchy, abbrVars, sbVars, cfgVars, handlers>>

(* dedicatedTasks.clearFilter: setFilter('') and                           *)
(* setContext('dedicatedTasks.filterActive', false).                       *)
ClearFilterCommand ==
    /\ pc = "ready"
    /\ Len(history) < MaxCommands
    /\ history' = Append(history, [command |-> "clearFilter", input |-> Input(<<>>)])
    /\ filterText' = setFilter(<<>>)
    /\ treeChanges' = treeChanges + 1
    /\ contextKeys' = [contextKeys EXCEPT !.filterActive = FALSE]
    /\ UNCHANGED <<pc, allItems, hierarchy, abbrVars, sbVars, cfgVars, handlers>>

(* The view asks for the children of the root; the tree it shows is the    *)
(* list returned, each element holding its children.                       *)
GetChildrenOfView ==
    /\ pc = "ready"
    /\ folderAbbreviations' = EnsureAbbreviations
    /\ \E r \in { getChildren(workspaceFolders, hostTasks, files, folderAbbreviations',
                              filterText) } :
         /\ result' = [subject |-> 0, threw |-> r.threw, value |-> <<>>]
         /\ hierarchy' = r.value
    /\ pc' = "getChildren"
    /\ UNCHANGED <<allItems, filterText, uiVars, workspaceFolders, sbVars, files, hostTasks,
                   asyncVars>>

NextView == FilterCommand \/ ClearFilterCommand \/ GetChildrenOfView

SpecView == InitView /\ [][NextView]_vars

(***************************************************************************)
(* parseJsonWithComments on any text of at most MaxTextLen characters: the *)
(* text is the one entry of files.                                         *)
(***************************************************************************)
MaxTextLen == 5

TextChars == {Quote, "/", "*", "a", LineFeed}

InitText ==
    /\ pc = "ready"
    /\ files \in { <<[key |-> 1, value |-> text]>> : text \in SeqsUpTo(TextChars, MaxTextLen) }
    /\ hostTasks = <<>>
    /\ result = NoResult
    /\ IdleTree /\ IdleAbbr /\ IdleStatus /\ IdleAsync

ParseJsonWithComments ==
    /\ pc = "ready"
    /\ \E r \in { parseJsonWithCommentsOfText(files[1].value) } :
         result' = [subject |-> 1, threw |-> r.threw, value |-> r.value]
    /\ pc' = "parseJsonWithComments"
    /\ UNCHANGED <<treeVars, abbrVars, sbVars, files, hostTasks, asyncVars>>

NextText == ParseJsonWithComments

SpecText == InitText /\ [][NextText]_vars

(***************************************************************************)
(* The StatusBarManager over its life: updateStatusBar, clearStatusBar and *)
(* dispose called in any order, in a workspace of one folder, of two, or   *)
(* of MaxFolders folders of one name.  The history is the list of the      *)
(* calls made.                                                             *)
(***************************************************************************)
MaxCalls == 2

ManagerWorkspaces ==
    StatusWorkspaces \cup { [k \in 1..MaxFolders |-> [name |-> <<"a", "b">>, uri |-> k]] }

(* the folders whose items are handed to the manager: the first and the    *)
(* last two                                                                *)
ManagerFolders(folders) == {1, Len(folders) - 1, Len(folders)} \cap DOMAIN folders

ManagerItemChoices(folders, abbreviations) ==
    { Item(t, name, folders[k].uri, MapGet(abbreviations, folders[k].uri), <<Str("a")>>,
           NoOrder) :
        t \in {"task", "launch"}, name \in {"run", "dbg"}, k \in ManagerFolders(folders) }

ManagerConfigs(folders) ==
    { [k \in DOMAIN folders |-> [key |-> folders[k].uri, value |-> sel]] :
        sel \in { [itemNames |-> <<"run">>, groups |-> <<>>],
                  [itemNames |-> <<>>, groups |-> << <<"a">> >>] } }

InitManager ==
    /\ pc = "ready"
    /\ workspaceFolders \in ManagerWorkspaces
    /\ folderAbbreviations = generateFolderAbbreviations(workspaceFolders)
    /\ config \in ManagerConfigs(workspaceFolders)
    /\ statusBarItems = <<>>
    /\ statusBar = <<>>
    /\ IdleTree /\ IdleConfig

(* statusBarManager.updateStatusBar(items) with the items of the provider *)
UpdateStatusBarCall ==
    /\ Len(history) < MaxCalls
    /\ \E items \in {s \in SeqsUpTo(ManagerItemChoices(workspaceFolders, folderAbbreviations),
                                    MaxStatusItems) : ListedOnce(s)} :
         /\ allItems' = items
         /\ \E st \in { updateStatusBar(items, config, workspaceFolders, statusBar,
                                        statusBarItems) } :
              /\ statusBar' = st.statusBar
              /\ statusBarItems' = st.statusBarItems
    /\ folderAbbreviations' = generateFolderAbbreviations(workspaceFolders)
    /\ history' = Append(history, "updateStatusBar")
    /\ UNCHANGED <<pc, hierarchy, filterText, uiVars, workspaceFolders, config, cfgVars,
                   handlers>>

(* statusBarManager.clearStatusBar() *)
ClearStatusBar ==
    /\ Len(history) < MaxCalls
    /\ \E st \in { clearStatusBar(statusBar, statusBarItems) } :
         /\ statusBar' = st.statusBar
         /\ statusBarItems' = st.statusBarItems
    /\ history' = Append(history, "clearStatusBar")
    /\ UNCHANGED <<pc, treeVars, abbrVars, config, cfgVars, handlers>>

(* statusBarManager.dispose() *)
Dispose ==
    /\ Len(history) < MaxCalls
    /\ \E st \in { dispose(statusBar, statusBarItems) } :
         /\ statusBar' = st.statusBar
         /\ statusBarItems' = st.statusBarItems
    /\ history' = Append(history, "dispose")
    /\ UNCHANGED <<pc, treeVars, abbrVars, config, cfgVars, handlers>>

NextManager == UpdateStatusBarCall \/ ClearStatusBar \/ Dispose

SpecManager == InitManager /\ [][NextManager]_vars
(***************************************************************************)
(* Reading a built tree: every group node, every leaf occurrence and every *)
(* list of siblings, each with the multiplicity the tree has.              *)
(***************************************************************************)
IsGroup(t) == t.type = "group"
IsLeaf(t) == t.type # "group"

RECURSIVE GroupOccurrences(_, _)
GroupOccurrences(children, parentPath) ==
    IF children = <<>> THEN <<>>
    ELSE LET h == Head(children)
         IN  (IF IsGroup(h)
              THEN <<[path |-> h.path, parentPath |-> parentPath, label |-> h.label]>>
                   \o GroupOccurrences(h.children, h.path)
              ELSE <<>>)
             \o GroupOccurrences(Tail(children), parentPath)

RECURSIVE LeafOccurrences(_, _, _)
LeafOccurrences(children, parentPath, underGroup) ==
    IF children = <<>> THEN <<>>
    ELSE LET h == Head(children)
         IN  (IF IsGroup(h)
              THEN LeafOccurrences(h.children, h.path, TRUE)
              ELSE <<[item |-> h.item, parentPath |-> parentPath, underGroup |-> underGroup]>>)
             \o LeafOccurrences(Tail(children), parentPath, underGroup)

RECURSIVE SiblingLists(_)
SiblingLists(children) ==
    LET RECURSIVE Below(_)
        Below(k) == IF k > Len(children) THEN <<>>
                    ELSE (IF IsGroup(children[k]) THEN SiblingLists(children[k].children)
                          ELSE <<>>) \o Below(k + 1)
    IN  <<children>> \o Below(1)

(* The group paths of an item, as a set, and the non-empty prefixes in use. *)
PathSet(item) == {NormalizePath(item.config.groups[g]) : g \in DOMAIN item.config.groups}

UsedPrefixes(items) ==
    UNION {{SubSeq(p, 1, k) : k \in 1..Len(p)} :
               p \in UNION {PathSet(items[i]) : i \in DOMAIN items}}

Count(s, P(_)) == Cardinality({k \in DOMAIN s : P(s[k])})

(***************************************************************************)
(* C1: the built tree holds exactly one leaf occurrence of an item per     *)
(* (item, group path) pair, at the group node whose path is that group     *)
(* path, and no other leaf occurrence.                                     *)
(***************************************************************************)
C1_OneLeafPerItemAndPath ==
    pc = "done" =>
        LET occ == LeafOccurrences(hierarchy, <<>>, FALSE)
        IN  /\ \A k \in DOMAIN occ :
                   /\ occ[k].underGroup
                   /\ occ[k].parentPath \in PathSet(allItems[occ[k].item])
            /\ \A i \in DOMAIN allItems : \A p \in PathSet(allItems[i]) :
                   Count(occ, LAMBDA o : o.item = i /\ o.underGroup /\ o.parentPath = p) = 1

(***************************************************************************)
(* C2: every non-empty prefix of a used group path has exactly one group   *)
(* node, every group node is such a prefix and sits under the node of its  *)
(* own parent prefix, and every leaf under a group lies at the node of one *)
(* of its item's paths (so items sharing a prefix share the ancestors).    *)
(***************************************************************************)
C2_OneGroupNodePerPrefix ==
    pc = "done" =>
        LET grp == GroupOccurrences(hierarchy, <<>>)
            occ == LeafOccurrences(hierarchy, <<>>, FALSE)
        IN  /\ \A p \in UsedPrefixes(allItems) : Count(grp, LAMBDA g : g.path = p) = 1
            /\ \A k \in DOMAIN grp :
                   /\ grp[k].path \in UsedPrefixes(allItems)
                   /\ grp[k].path = Append(grp[k].parentPath, grp[k].label)
            /\ \A k \in DOMAIN occ :
                   occ[k].underGroup => occ[k].parentPath \in PathSet(allItems[occ[k].item])

(* Two different items lie below the one node "a", one of them deeper.     *)
C2_Witness ==
    /\ pc = "done"
    /\ LET occ == LeafOccurrences(hierarchy, <<>>, FALSE)
           grp == GroupOccurrences(hierarchy, <<>>)
       IN  /\ \E j, k \in DOMAIN occ :
                  /\ occ[j].item # occ[k].item
                  /\ occ[j].parentPath = <<"a">>
                  /\ occ[k].parentPath = <<"a", "b">>
           /\ Count(grp, LAMBDA g : g.path = <<"a">>) = 1

(***************************************************************************)
(* C5: under every node the leaves are in ascending order of `order`, a    *)
(* missing order counting as 0, and leaves of equal order keep the order   *)
(* of the input list.                                                      *)
(***************************************************************************)
ClaimedOrder(item) == IF item.config.hasOrder THEN item.config.order ELSE 0

C5_LeavesAscendingStable ==
    pc = "done" =>
        \A L \in Range(SiblingLists(hierarchy)) :
            LET leaves == SelectSeq(L, IsLeaf)
            IN  \A i, j \in DOMAIN leaves :
                    i < j =>
                        /\ ClaimedOrder(allItems[leaves[i].item])
                               <= ClaimedOrder(allItems[leaves[j].item])
                        /\ ClaimedOrder(allItems[leaves[i].item])
                               = ClaimedOrder(allItems[leaves[j].item])
                           => leaves[i].item <= leaves[j].item

(* A node where the sort moved a later item (a launch configuration with a *)
(* negative order) before an earlier task without order.                   *)
C5_Witness ==
    /\ pc = "done"
    /\ \E L \in Range(SiblingLists(hierarchy)) :
           LET leaves == SelectSeq(L, IsLeaf)
           IN  \E i, j \in DOMAIN leaves :
                   /\ i < j
                   /\ leaves[i].item > leaves[j].item
                   /\ leaves[i].type = "launch" /\ leaves[j].type = "task"
                   /\ ~allItems[leaves[j].item].config.hasOrder

(***************************************************************************)
(* C6: under every node, the root included, the sibling groups are in      *)
(* ascending order of their names (the order of localeCompare), whatever   *)
(* the order of the items: the reversed list gives the same groups in the  *)
(* same places.                                                            *)
(***************************************************************************)
Reverse(s) == [i \in 1..Len(s) |-> s[Len(s) + 1 - i]]

C6_GroupsAscending ==
    pc = "done" =>
        /\ \A L \in Range(SiblingLists(hierarchy)) :
               LET groups == SelectSeq(L, IsGroup)
               IN  \A i, j \in DOMAIN groups :
                       i < j => CollationRank(groups[i].label) < CollationRank(groups[j].label)
        /\ GroupOccurrences(hierarchy, <<>>)
               = GroupOccurrences(buildHierarchyFromItems(Reverse(allItems), NoFolder, filterText), <<>>)

(* The groups "b" and "B" were created in the order B, b and are shown in  *)
(* the order a, b, B.                                                      *)
C6_Witness ==
    /\ pc = "done"
    /\ Len(allItems) = 2
    /\ allItems[1].config.groups = <<Arr(<<"B">>), Arr(<<"a", "b">>)>>
    /\ allItems[2].config.groups = <<Arr(<<"b", "a">>), Str("b")>>
    /\ [k \in 1..3 |-> hierarchy[k].label] = <<"a", "b", "B">>

(***************************************************************************)
(* C4: folders with pairwise distinct URIs get pairwise distinct tags.     *)
(***************************************************************************)
C4_TagsDistinct ==
    pc = "done" =>
        \A i, j \in DOMAIN workspaceFolders :
            i # j => MapGet(folderAbbreviations, workspaceFolders[i].uri)
                         # MapGet(folderAbbreviations, workspaceFolders[j].uri)

(***************************************************************************)
(* C8: every tag returned has exactly 3 characters.                        *)
(***************************************************************************)
C8_TagsHaveThreeChars ==
    pc = "done" =>
        \A k \in DOMAIN folderAbbreviations : Len(folderAbbreviations[k].value) = 3

(***************************************************************************)
(* What the selection of an item's folder says about the item: its name is *)
(* listed, or one of its own group paths has a selected path as a prefix.  *)
(***************************************************************************)
SelectionOf(folderUri) ==
    IF \E k \in DOMAIN config : config[k].key = folderUri
    THEN (CHOOSE e \in Range(config) : e.key = folderUri).value
    ELSE [itemNames |-> <<>>, groups |-> <<>>]

IsSelected(item) ==
    \/ item.name \in Range(SelectionOf(item.folder).itemNames)
    \/ \E p \in PathSet(item) : \E q \in Range(SelectionOf(item.folder).groups) : IsPrefix(q, p)

HasEntry(i) == \E k \in DOMAIN statusBar : statusBar[k].item = i

(***************************************************************************)
(* C3: an item of the list gets a status bar entry if and only if its name *)
(* is selected for its folder or one of its own group paths has a selected *)
(* group path of its folder as a prefix.                                   *)
(***************************************************************************)
C3_EntryIffSelected ==
    pc = "done" => \A i \in DOMAIN allItems : HasEntry(i) <=> IsSelected(allItems[i])

(***************************************************************************)
(* C7: an item matching in several ways gets exactly one entry: the number *)
(* of status bar entries is the number of distinct matching items.         *)
(***************************************************************************)
C7_OneEntryPerMatchingItem ==
    pc = "done" =>
        /\ \A i \in DOMAIN allItems :
               IsSelected(allItems[i]) => Count(statusBar, LAMBDA e : e.item = i) = 1
        /\ Len(statusBar) = Cardinality({i \in DOMAIN allItems : IsSelected(allItems[i])})

(***************************************************************************)
(* Claims about reading configuration                                      *)
(***************************************************************************)
(* The file is missing or unreadable, or its text is not JSON.             *)
CannotBeRead(file) == file.kind # "text" \/ ~file.parses

FilesOf(uri) == MapGet(files, uri)

(* C9: reading configuration never propagates an error: getDedicatedTaskConfig, *)
(* getDedicatedLaunchConfigsForFolder and the load of dedicated-tasks.json *)
(* complete normally, and when the file is missing or cannot be parsed     *)
(* they yield the empty result for it: no block, no launch configuration,  *)
(* the empty selection.                                                    *)
C9_ReadsNeverPropagate ==
    /\ pc = "getDedicatedTaskConfig" =>
        /\ ~result.threw
        /\ CannotBeRead(FilesOf(getTaskWorkspaceFolder(hostTasks[result.subject],
                                                       workspaceFolders)).tasks)
             => ~result.value.present
    /\ pc = "getDedicatedLaunchConfigsForFolder" =>
        /\ ~result.threw
        /\ CannotBeRead(FilesOf(result.subject).launch) => result.value = <<>>
    /\ pc = "reloadConfig" =>
        /\ ~result.threw
        /\ \A k \in DOMAIN workspaceFolders :
             CannotBeRead(FilesOf(workspaceFolders[k].uri).dedicated)
               => /\ MapHas(config, workspaceFolders[k].uri)
                  /\ MapGet(config, workspaceFolders[k].uri) = EmptyFolderConfig

(* A task of the first folder has been looked up in a tasks.json that is   *)
(* a text but not JSON, and the lookup returned no block.                  *)
C9_Witness ==
    /\ pc = "getDedicatedTaskConfig"
    /\ getTaskWorkspaceFolder(hostTasks[result.subject], workspaceFolders) = 1
    /\ FilesOf(1).tasks = UnparsableText
    /\ ~result.threw /\ ~result.value.present

(* The files of the folder as they are when it has no configuration.       *)
WithoutConfiguration(fs, uri) ==
    MapSet(fs, uri, FolderFiles(MissingFile, MissingFile, MissingFile))

(* A block of the file lacks groups or holds a group that is neither a     *)
(* string nor an array.                                                    *)
HasMalformedBlock(file) ==
    /\ ~CannotBeRead(file) /\ ~file.value.nullish
    /\ \E k \in DOMAIN file.value.entries :
         LET e == file.value.entries[k]
         IN  /\ ~e.nullish /\ e.block.present
             /\ \/ ~e.block.config.groupsDefined
                \/ \E g \in DOMAIN e.block.config.groups : ~PathIterable(e.block.config.groups[g])

Unusable(file) == CannotBeRead(file) \/ HasMalformedBlock(file)

(* What the tree shows for a folder: the hierarchy of its folder item.     *)
TreeOf(folderItems, uri) ==
    LET shown == SelectSeq(folderItems, LAMBDA w : w.folder = uri)
    IN  IF shown = <<>> THEN <<>> ELSE shown[1].children

(* What the status bar shows for a folder: the items of its entries.       *)
EntriesOf(bar, items, uri) ==
    { [itemType |-> items[bar[k].item].itemType, name |-> items[bar[k].item].name] :
        k \in { j \in DOMAIN bar : items[bar[j].item].folder = uri } }

(* C10: in a workspace of several folders, whatever the state of the files *)
(* of one folder (missing, unreadable, unparsable, or parsable with a      *)
(* malformed dedicatedTasks block), getChildren and the status bar update  *)
(* complete, show for the other folder what they would show if the first   *)
(* had no configuration, and show nothing for the first when none of its   *)
(* files is usable.                                                        *)
C10_OtherFoldersUnaffected ==
    /\ pc = "getChildren" =>
        /\ ~result.threw
        /\ TreeOf(result.value, 2)
             = TreeOf(getChildren(workspaceFolders, hostTasks, WithoutConfiguration(files, 1),
                                  folderAbbreviations, filterText).value, 2)
        /\ (Unusable(FilesOf(1).tasks) /\ Unusable(FilesOf(1).launch))
             => TreeOf(result.value, 1) = <<>>
    /\ pc = "updateStatusBar" =>
        /\ ~result.threw
        /\ LET other == getAllTasks(hostTasks, workspaceFolders,
                                    WithoutConfiguration(files, 1), folderAbbreviations).value
           IN  EntriesOf(statusBar, allItems, 2)
                 = EntriesOf(updateStatusBar(other, config, workspaceFolders, <<>>, <<>>).statusBar,
                             other, 2)
        /\ (Unusable(FilesOf(1).tasks) /\ Unusable(FilesOf(1).launch))
             => EntriesOf(statusBar, allItems, 1) = {}

(***************************************************************************)
(* C11: a task or launch configuration whose block has hide: true is never *)
(* a leaf of the tree getChildren returns, is never in the list            *)
(* getAllTasks returns, and never has a status bar entry, whatever the      *)
(* selection.                                                              *)
(***************************************************************************)
HiddenInTasksJson(item) ==
    /\ item.itemType = "task"
    /\ \E k \in DOMAIN hostTasks :
         LET r == getDedicatedTaskConfig(hostTasks[k], workspaceFolders, files)
         IN  /\ hostTasks[k].name = item.name
             /\ getTaskWorkspaceFolder(hostTasks[k], workspaceFolders) = item.folder
             /\ r.value.present /\ r.value.config.hide

IsHidden(item) == item.config.hide \/ HiddenInTasksJson(item)

ShownWith(cfg) ==
    LET bar == updateStatusBar(allItems, cfg, workspaceFolders, <<>>, <<>>).statusBar
    IN  {bar[k].item : k \in DOMAIN bar}

C12_SelectionIsPerFolder ==
    pc = "done" =>
        \A f \in DOMAIN workspaceFolders : \A sel \in StatusSelections :
            \A i \in DOMAIN allItems :
                allItems[i].folder # workspaceFolders[f].uri
                    => (HasEntry(i) <=> i \in ShownWith(MapSet(config, workspaceFolders[f].uri, sel)))

(* Two items with the same name and the same groups, one in each folder;   *)
(* the first folder selects the name, the second selects nothing: only the *)
(* item of the first folder has an entry.                                  *)
C12_Witness ==
    /\ pc = "done" /\ Len(allItems) = 2 /\ Len(workspaceFolders) = 2
    /\ allItems[1].folder = 1 /\ allItems[2].folder = 2
    /\ allItems[1].name = allItems[2].name
    /\ allItems[1].config = allItems[2].config
    /\ allItems[1].name \in Range(SelectionOf(1).itemNames)
    /\ SelectionOf(2) = EmptyFolderConfig
    /\ HasEntry(1) /\ ~HasEntry(2)

(***************************************************************************)
(* Claims about activation and the watchers                                *)
(***************************************************************************)
Quiescent == handlers = {}

(* What the files as they are now select: the status bar of an update that *)
(* reads the items and the selections now.                                 *)
SelectedByFiles ==
    LET items == getAllTasks(hostTasks, workspaceFolders, files, folderAbbreviations).value
        loaded == loadAllConfigs(workspaceFolders, files).value
    IN  ShownItems(updateStatusBar(items, loaded, workspaceFolders, <<>>, <<>>).statusBar, items)

(* C13: once activation has settled (the constructor's load and the        *)
(* initial update have completed, no event has occurred), the status bar   *)
(* shows exactly the items that the persisted dedicated-tasks.json files   *)
(* select, for every interleaving of the load and the update.              *)
C13_SelectionShownAfterActivation ==
    (Quiescent /\ history.clock = 0) => ShownItems(statusBar, allItems) = SelectedByFiles

(* C20: re-triggered updates supersede earlier ones.  Once all handlers    *)
(* have completed, the status bar shows what the most recently triggered   *)
(* update computed and the configuration is the one that the most recently *)
(* triggered load read.                                                    *)
C20_LatestTriggerWins ==
    Quiescent =>
        /\ ShownItems(statusBar, allItems) = history.newestBar
        /\ config = history.newestConfig

(* C16: after every event on a watched file, a status bar update is        *)
(* eventually performed that shows items read after the event and, for an  *)
(* event of dedicated-tasks.json, uses a selection read after the event;   *)
(* an event of tasks.json or launch.json has fired a tree change as well.  *)
C16_EventsAreApplied ==
    \A n \in 1..MaxEvents :
        (history.clock >= n) ~> (/\ history.clock >= n
                                 /\ history.served[n]
                                 /\ history.events[n] # "dedicated" => history.treeChanges > 0)


(* C21: no two operations touch the shared state at once.  A handler takes *)
(* its last step (a load replaces config; an update reads config and       *)
(* replaces statusBarItems) only while no other load or update that has    *)
(* started is still to complete.                                           *)
C21_OperationsDoNotOverlap ==
    [][\A h \in handlers :
          (h.step = "finish" /\ h \notin handlers') => handlers = {h}]_vars

(***************************************************************************)
(* Claims about saving the selection                                       *)
(***************************************************************************)
DedicatedJsonOf(fs, uri) == MapGet(fs, uri).dedicated

(* The custom abbreviation that a dedicated-tasks.json holds, if any.      *)
AbbreviationOf(file) ==
    IF file.kind = "text" /\ file.parses /\ file.value.hasAbbreviation
    THEN <<file.value.abbreviation>> ELSE <<>>

(* C14: saving a folder's selection preserves a custom abbreviation that   *)
(* its dedicated-tasks.json holds: whenever configureStatusBar writes the  *)
(* file of a folder, the abbreviation in the file after the save is the    *)
(* one in the file before it.                                              *)
C14_SavePreservesAbbreviation ==
    [][\A f \in DOMAIN workspaceFolders :
         LET before == DedicatedJsonOf(files, workspaceFolders[f].uri)
             after == DedicatedJsonOf(files', workspaceFolders[f].uri)
         IN  (AbbreviationOf(before) # <<>> /\ after # before)
                 => AbbreviationOf(after) = AbbreviationOf(before)]_vars

(***************************************************************************)
(* Claims about the filter                                                 *)
(***************************************************************************)
(* What the documentation says the filter looks at.                        *)
ClaimedMatch(item, filter) ==
    \/ Includes(ToLowerCase(Spelling(item.name)), filter)
    \/ Includes(ToLowerCase(Spelling(item.config.label)), filter)
    \/ Includes(ToLowerCase(Spelling(item.config.detail)), filter)
    \/ \E p \in PathSet(item) : \E s \in DOMAIN p :
           Includes(ToLowerCase(Spelling(p[s])), filter)
    \/ Includes(ToLowerCase(item.folderAbbreviation), filter)

(* The group paths under which the item at position i of allItems is shown *)
(* in the filtered tree.                                                   *)
ShownUnder(i) ==
    LET occ == LeafOccurrences(hierarchy, <<>>, FALSE)
    IN  { occ[k].parentPath : k \in { n \in DOMAIN occ : result.value[occ[n].item] = i } }

(* C15: with a non-empty filter text an item is kept in the tree exactly   *)
(* when the lower-cased filter is a substring of its lower-cased name,     *)
(* label, detail, a segment of one of its group paths or its folder        *)
(* abbreviation; a kept item is shown under all of its group paths.        *)
C15_FilterKeepsMatchingItems ==
    (pc = "done" /\ filterText # <<>> /\ ~result.threw) =>
        \A i \in DOMAIN allItems :
            /\ (ShownUnder(i) # {}) <=> ClaimedMatch(allItems[i], filterText)
            /\ (ShownUnder(i) # {}) => ShownUnder(i) = PathSet(allItems[i])

FirstChars(str, n) == SubSeq(str, 1, IF Len(str) < n THEN Len(str) ELSE n)

ClaimedCandidates(name) ==
    LET clean == CleanName(name)
        consonants == SelectSeq(SubSeq(clean, 2, Len(clean)),
                                LAMBDA c : c \notin {"A", "E", "I", "O", "U"})
    IN  <<PadEnd(FirstChars(clean, 3), 3, "X"),
          PadEnd(FirstChars(clean, 1) \o FirstChars(consonants, 2), 3, "X")>>
        \o (IF Len(clean) >= 3
            THEN <<<<clean[1], clean[(Len(clean) \div 2) + 1], clean[Len(clean)]>>>>
            ELSE <<>>)
        \o [i \in 1..9 |-> PadEnd(FirstChars(clean, 2), 2, "X") \o <<DigitChars[i + 1]>>]

TagOf(k) == MapGet(folderAbbreviations, workspaceFolders[k].uri)

EarlierTags(k) == { TagOf(j) : j \in 1..(k - 1) }

(* C18: every folder, in list order, gets the first of its candidates that *)
(* no earlier folder has got and, when all of them are taken, an           *)
(* index-based fallback that no earlier folder has got either.             *)
C18_FirstFreeCandidate ==
    pc = "done" =>
        \A k \in DOMAIN workspaceFolders :
            LET candidates == ClaimedCandidates(workspaceFolders[k].name)
                free == { c \in DOMAIN candidates : candidates[c] \notin EarlierTags(k) }
            IN  /\ TagOf(k) \notin EarlierTags(k)
                /\ free # {} => TagOf(k) = candidates[CHOOSE c \in free : \A d \in free : c <= d]
                /\ free = {} => TagOf(k) = Fallback(workspaceFolders, workspaceFolders[k].name)

(***************************************************************************)
(* C19: group paths are never empty.  Every entry of an item's groups that *)
(* buildHierarchyFromItems has accepted has at least one segment, and      *)
(* every leaf of the built tree lies under a group node, none directly at  *)
(* the root.                                                               *)
(***************************************************************************)
C19_NoLeafAtTheRoot ==
    pc = "done" =>
        /\ \A i \in DOMAIN allItems : \A p \in PathSet(allItems[i]) : Len(p) >= 1
        /\ LET occ == LeafOccurrences(hierarchy, <<>>, FALSE)
           IN  \A k \in DOMAIN occ : occ[k].underGroup

(***************************************************************************)
(* Claims about the tree items: ids, parents, descriptions, expansion.     *)
(***************************************************************************)

(* every node of a tree, one entry per position, parents before children *)
RECURSIVE AllNodes(_)
AllNodes(children) ==
    IF children = <<>> THEN <<>>
    ELSE <<Head(children)>> \o AllNodes(Head(children).children) \o AllNodes(Tail(children))

(* C22: every tree item has a unique id.  In the tree getChildren returned, no   *)
(* two distinct node positions carry the same id.                          *)
C22_IdsAreUnique ==
    pc = "getChildren" =>
        LET nodes == AllNodes(hierarchy)
        IN  \A m, n \in DOMAIN nodes : nodes[m].id = nodes[n].id => m = n

(* getParent answers with the element for every child of the element, all *)
(* the way down                                                            *)
RECURSIVE ParentIsInverse(_, _, _)
ParentIsInverse(children, element, folderUri) ==
    \A k \in DOMAIN children :
        /\ getParent(children[k]) = element
        /\ children[k].type = "group" =>
              ParentIsInverse(children[k].children, GroupRef(folderUri, children[k].path),
                              folderUri)

(* C23: getParent is the inverse of getChildren.  In the tree getChildren  *)
(* returned, getParent of a root-level node is undefined and getParent of  *)
(* a child of an element is that element.                                  *)
C23_GetParentInvertsGetChildren ==
    (pc = "getChildren" /\ ~result.threw) =>
        \A k \in DOMAIN hierarchy :
            /\ getParent(hierarchy[k]) = NoParent
            /\ IF hierarchy[k].type = "folder"
               THEN ParentIsInverse(hierarchy[k].children, FolderRef(hierarchy[k].folder),
                                    hierarchy[k].folder)
               ELSE hierarchy[k].type = "group" =>
                       ParentIsInverse(hierarchy[k].children,
                                       GroupRef(workspaceFolders[1].uri, hierarchy[k].path),
                                       workspaceFolders[1].uri)

(* C25: when the filter text is non-empty every group item and every       *)
(* folder item getChildren produces is Expanded, and when it is empty      *)
(* every one of them is Collapsed.                                         *)
C25_ExpandedIffFiltered ==
    (pc = "getChildren" /\ ~result.threw) =>
        LET nodes == AllNodes(hierarchy)
        IN  \A n \in DOMAIN nodes :
                nodes[n].type \in {"group", "folder"} =>
                    (nodes[n].expanded <=> filterText # <<>>)

(* a filtered tree of two folders that holds a folder item and a group *)
C25_Witness ==
    /\ pc = "getChildren" /\ ~result.threw
    /\ filterText # <<>>
    /\ \E k \in DOMAIN hierarchy :
         /\ hierarchy[k].type = "folder" /\ hierarchy[k].expanded
         /\ \E c \in DOMAIN hierarchy[k].children :
               hierarchy[k].children[c].type = "group" /\ hierarchy[k].children[c].expanded

(* C29: every group node of the tree getChildren returned has a           *)
(* description, and it counts the leaf occurrences in the whole subtree    *)
(* below the group.                                                        *)
C29_GroupsDescribeTheirItems ==
    (pc = "getChildren" /\ ~result.threw) =>
        LET nodes == AllNodes(hierarchy)
        IN  \A n \in DOMAIN nodes :
                nodes[n].type = "group" =>
                    /\ nodes[n].hasDescription
                    /\ nodes[n].description = countItems(nodes[n].children)

(* the command run by a step, if the step runs one *)
LastCommand(h) == h[Len(h)]

(* C30: after every sequence of filter and clearFilter commands the        *)
(* context key filterActive is true exactly when the filter text of the    *)
(* provider is non-empty; a filter command whose input box is dismissed    *)
(* leaves the filter text and the context key as they are and fires no     *)
(* tree change.                                                            *)
C30_FilterActiveIffFiltered ==
    /\ [](contextKeys.filterActive <=> filterText # <<>>)
    /\ [][(Len(history') > Len(history) /\ LastCommand(history').input.dismissed)
            => UNCHANGED <<filterText, contextKeys, treeChanges>>]_vars

(* a filter was entered, then a filter command was dismissed *)
C30_Witness ==
    /\ Len(history) = 2
    /\ history[1].command = "filter" /\ ~history[1].input.dismissed
    /\ history[1].input.text # <<>>
    /\ history[2].command = "filter" /\ history[2].input.dismissed
    /\ contextKeys.filterActive /\ treeChanges = 1

(***************************************************************************)
(* Claims about parseJsonWithComments.                                     *)
(***************************************************************************)

(* The text without its comments: a // outside a string literal starts a   *)
(* comment that runs to the end of the line, a /* outside a string literal *)
(* a comment that runs to the next */; what is inside a string literal is  *)
(* no comment.                                                             *)
RECURSIVE CommentFree(_, _)
CommentFree(text, inString) ==
    IF text = <<>> THEN <<>>
    ELSE IF inString
         THEN <<Head(text)>> \o CommentFree(Tail(text), Head(text) # Quote)
    ELSE IF Head(text) = Quote THEN <<Quote>> \o CommentFree(Tail(text), TRUE)
    ELSE IF Len(text) >= 2 /\ text[1] = "/" /\ text[2] = "/"
         THEN CommentFree(FromLineEnd(text), FALSE)
    ELSE IF Len(text) >= 2 /\ text[1] = "/" /\ text[2] = "*"
            /\ IndexOfPair(text, "*", "/", 3) # 0
         THEN CommentFree(From(text, IndexOfPair(text, "*", "/", 3) + 2), FALSE)
    ELSE <<Head(text)>> \o CommentFree(Tail(text), FALSE)

(* C24: parseJsonWithComments strips only comments.  For a text that is    *)
(* JSON once its comments are removed it returns the value of that         *)
(* comment-free text, string values intact; it never throws, and returns   *)
(* undefined for a text that does not parse after the stripping.           *)
C24_StripsOnlyComments ==
    pc = "parseJsonWithComments" =>
        LET expected == JSONParseText(CommentFree(files[1].value, FALSE))
        IN  /\ ~result.threw
            /\ ~expected.threw => result.value = expected.value
            /\ JSONParseText(withoutComments(files[1].value)).threw
                  => result.value = Undefined

(***************************************************************************)
(* Claims about the life of the status bar items.                          *)
(***************************************************************************)

(* the status bar entry is one the manager's map holds *)
Held(entry) == \E k \in DOMAIN statusBarItems : statusBarItems[k].value = entry.handle

(* C26: the manager never loses track of a status bar item.  After any     *)
(* sequence of updateStatusBar, clearStatusBar and dispose calls every     *)
(* item created and not disposed is held in statusBarItems, each under a   *)
(* key of its own; after clearStatusBar or dispose none is shown.          *)
C26_EveryItemIsHeld ==
    /\ \A e \in DOMAIN statusBar : Held(statusBar[e])
    /\ Len(statusBarItems) = Len(statusBar)
    /\ (history # <<>> /\ history[Len(history)] \in {"clearStatusBar", "dispose"})
          => statusBar = <<>>

(***************************************************************************)
(* Claims about what configureStatusBar leaves in memory and in the files. *)
(***************************************************************************)

(* the selection that loading the dedicated-tasks.json of a folder gives *)
SelectionOfFile(fs, uri) == CatchDedicatedJson(ReadFolderSelection(DedicatedJsonOf(fs, uri))).value

(* two selections name the same items and the same groups *)
SameSelection(a, b) ==
    /\ Range(a.itemNames) = Range(b.itemNames)
    /\ Range(a.groups) = Range(b.groups)

(* the entries the quick pick shows as picked *)
PrePicked(items, cfg, folders) ==
    { e \in QuickPickItems(items, folders) :
        IF e.type = "item" THEN isItemSelected(cfg, e.folderUri, e.itemName)
        ELSE isGroupSelected(cfg, e.folderUri, e.groupPath) }

(* the answer the user gave in the step that ran configureStatusBar *)
AnswerOfStep == result'.value

(* C27: configureStatusBar is a no-op when nothing is changed.  If the     *)
(* user accepts the quick pick with exactly the pre-picked entries, the    *)
(* selection of every folder, in memory and in its dedicated-tasks.json,   *)
(* names the same items and groups as before; if the user dismisses the    *)
(* quick pick, no selection and no file changes.                           *)
C27_UnchangedPickIsNoOp ==
    [][LET items == getAllTasks(hostTasks, workspaceFolders, files, folderAbbreviations).value
       IN  /\ (AnswerOfStep.picked
               /\ Range(AnswerOfStep.selected) = PrePicked(items, config, workspaceFolders))
                 => \A f \in DOMAIN workspaceFolders :
                      LET uri == workspaceFolders[f].uri
                      IN  /\ SameSelection(FolderConfigOf(config', uri), FolderConfigOf(config, uri))
                          /\ SameSelection(SelectionOfFile(files', uri), SelectionOfFile(files, uri))
           /\ ~AnswerOfStep.picked => (config' = config /\ files' = files)]_vars

(* the selection the picks of an answer make for a folder *)
PickedSelection(answer, folders, uri) ==
    MapGet(ProcessSelections(answer.selected, 1,
               [f \in DOMAIN folders |-> [key |-> folders[f].uri, value |-> EmptyFolderConfig]]),
           uri)

(* C28: after configureStatusBar finishes with an accepted selection,      *)
(* whether it returns or a file write fails, the selection of every        *)
(* folder in memory is the one stored in its dedicated-tasks.json; a       *)
(* write that fails for one folder does not keep the selections of the     *)
(* other folders from being saved nor the status bar from being refreshed. *)
C28_MemoryMatchesFiles ==
    [][AnswerOfStep.picked =>
         LET items == getAllTasks(hostTasks, workspaceFolders, files, folderAbbreviations).value
             refreshed == updateStatusBar(items, config', workspaceFolders, statusBar,
                                          statusBarItems)
         IN  /\ \A f \in DOMAIN workspaceFolders :
                  LET uri == workspaceFolders[f].uri
                  IN  /\ FolderConfigOf(config', uri) = SelectionOfFile(files', uri)
                      /\ ~writeFile(DedicatedJsonOf(files, uri), NullSelection).threw
                            => SelectionOfFile(files', uri)
                                 = PickedSelection(AnswerOfStep, workspaceFolders, uri)
             /\ statusBar' = refreshed.statusBar
             /\ statusBarItems' = refreshed.statusBarItems]_vars
====
